---- MODULE Spec2Model ----
(***************************************************************************)
(* VibeTTY interactive session engine (SSHPseudoterminal) with its output  *)
(* buffer, secret filter / registry, control-sequence normaliser and the   *)
(* three output detectors (auth prompt, sub-session, pagination).          *)
(*                                                                         *)
(* Text is a sequence of tokens.  A token stands for one character of the  *)
(* source string, or for one literal word that the code only ever matches  *)
(* as a whole ("password:", " --More-- ", "pre-shared-key", ...).  String  *)
(* length is the number of tokens.  Index arguments are 1-based here and   *)
(* 0-based in the source; lastReadPosition keeps the source's value (the   *)
(* number of characters before the cursor).                                *)
(***************************************************************************)
EXTENDS Integers, Sequences, FiniteSets, TLC

VARIABLES
    outputBuffer,        \* SSHPseudoterminal.outputBuffer
    lastReadPosition,    \* SSHPseudoterminal.lastReadPosition
    process,             \* "none" before open(), "running", "exited", "killed"
    isConnected,         \* SSHPseudoterminal._isConnected
    pendingLine,         \* auth detector accumulator
    promptDetectionTimer,\* [armed, type]: the 300 ms debounce timer and its closure
    authWaiting,         \* number of handleAuthPrompt calls waiting for the input box
    pendingSubSessionHost, \* _pendingSubSessionHost ("" is null)
    subSessionDetectionTimer, \* TRUE while the 5 s timer is armed
    paginationBuffer,
    isPaginating,
    commandQueue,        \* sequence of [text, addNewLine]
    autoPaginateEnabled,
    visibleCommandLine,
    vendor,              \* name of the Vendor profile in use
    registry,            \* SecretRegistry singleton: [secrets, secretCounter]
    strictModeEnabled,   \* ApprovalGate.strictModeEnabled
    dialogs,             \* approval dialogs on screen, each with the tool call awaiting it
    clients,             \* IPCServer.clients: the ClientState of each connection
    activeSession,       \* SessionManager.activeSessions entry of the session:
                         \* [contextStack, subSessionStack]
    written,             \* history: every process.write, in order
    events,              \* history: every event fired (auth prompt, sub-session)
    returned,            \* history: value returned by the last tool read
    hist                 \* history record used only by the properties

vars == << outputBuffer, lastReadPosition, process, isConnected, pendingLine,
           promptDetectionTimer, authWaiting, pendingSubSessionHost,
           subSessionDetectionTimer, paginationBuffer, isPaginating,
           commandQueue, autoPaginateEnabled, visibleCommandLine, vendor, registry,
           strictModeEnabled, dialogs, clients, activeSession,
           written, events, returned, hist >>

-----------------------------------------------------------------------------
(* Tokens *)

NL == "\n"
CR == "\r"
BS == "BS"          \* \b
DEL == "DEL"        \* \x7f
ESC == "ESC"        \* \x1b
BEL == "BEL"        \* \x07
Wide == "U+00E9"    \* one UTF-16 unit that takes two bytes in UTF-8

Min(a, b) == IF a < b THEN a ELSE b
Max(a, b) == IF a > b THEN a ELSE b

\* String.prototype.substring(start) with 0-based start
Substring(s, start) ==
    IF start >= Len(s) THEN << >> ELSE SubSeq(s, Max(start, 0) + 1, Len(s))

\* keep the last n characters: s.substring(s.length - n)
LastChars(s, n) == Substring(s, Len(s) - n)

MatchesAt(s, pat, i) ==
    /\ i >= 1
    /\ i + Len(pat) - 1 <= Len(s)
    /\ SubSeq(s, i, i + Len(pat) - 1) = pat

\* first 1-based index >= from at which pat occurs in s, 0 when there is none
IndexOf(s, pat, from) ==
    LET cands == { i \in from..(Len(s) - Len(pat) + 1) : MatchesAt(s, pat, i) }
    IN  IF cands = {} THEN 0 ELSE CHOOSE i \in cands : \A j \in cands : i <= j

Includes(s, pat) == IndexOf(s, pat, 1) # 0

HasToken(s, t) == \E i \in 1..Len(s) : s[i] = t

EndsWith(s, pat) == Len(pat) <= Len(s) /\ SubSeq(s, Len(s) - Len(pat) + 1, Len(s)) = pat

IsSpace(t) == t \in {" ", NL, CR, "\t"}

RECURSIVE TrimStart(_)
TrimStart(s) == IF s # << >> /\ IsSpace(Head(s)) THEN TrimStart(Tail(s)) ELSE s

RECURSIVE TrimEnd(_)
TrimEnd(s) ==
    IF s # << >> /\ IsSpace(s[Len(s)]) THEN TrimEnd(SubSeq(s, 1, Len(s) - 1)) ELSE s

Trim(s) == TrimStart(TrimEnd(s))

\* s.split(sep) for a one-character separator: a sequence of Len+1 pieces
RECURSIVE Split(_, _)
Split(s, sep) ==
    LET i == IndexOf(s, << sep >>, 1)
    IN  IF i = 0 THEN << s >>
        ELSE << SubSeq(s, 1, i - 1) >> \o Split(SubSeq(s, i + 1, Len(s)), sep)

\* pieces.join(sep)
RECURSIVE Join(_, _)
Join(pieces, sep) ==
    IF pieces = << >> THEN << >>
    ELSE IF Len(pieces) = 1 THEN pieces[1]
    ELSE pieces[1] \o << sep >> \o Join(Tail(pieces), sep)

\* Array.prototype.slice(-n): the last n elements; slice(-0) is slice(0), all
SliceLast(pieces, n) ==
    IF n = 0 \/ n >= Len(pieces) THEN pieces
    ELSE SubSeq(pieces, Len(pieces) - n + 1, Len(pieces))

\* Array.prototype.pop() on a non-empty array read as "the last element"
Last(pieces) == pieces[Len(pieces)]

\* The replacement-string patterns of String.prototype.replace: "$$" inserts
\* one "$" and "$&" the matched text; the pattern has no capture group, so
\* "$1".."$9" stay literal.
RECURSIVE ExpandReplacement(_, _)
ExpandReplacement(rep, matched) ==
    IF rep = << >> THEN << >>
    ELSE IF Len(rep) >= 2 /\ rep[1] = "$" /\ rep[2] = "$"
         THEN << "$" >> \o ExpandReplacement(SubSeq(rep, 3, Len(rep)), matched)
    ELSE IF Len(rep) >= 2 /\ rep[1] = "$" /\ rep[2] = "&"
         THEN matched \o ExpandReplacement(SubSeq(rep, 3, Len(rep)), matched)
    ELSE << rep[1] >> \o ExpandReplacement(Tail(rep), matched)

\* text.replace(pat, rep) with a string pattern: the first occurrence only
ReplaceFirst(s, pat, rep) ==
    LET i == IndexOf(s, pat, 1)
    IN  IF pat = << >> \/ i = 0 THEN s
        ELSE SubSeq(s, 1, i - 1) \o ExpandReplacement(rep, pat)
             \o SubSeq(s, i + Len(pat), Len(s))

\* text.replace(new RegExp(escaped(pat), 'g'), rep): every non-overlapping
\* occurrence, left to right
RECURSIVE ReplaceAll(_, _, _)
ReplaceAll(s, pat, rep) ==
    LET i == IndexOf(s, pat, 1)
    IN  IF pat = << >> \/ i = 0 THEN s
        ELSE SubSeq(s, 1, i - 1) \o ExpandReplacement(rep, pat)
             \o ReplaceAll(SubSeq(s, i + Len(pat), Len(s)), pat, rep)

-----------------------------------------------------------------------------
(* Secret registry (SecretRegistry) *)

DigitTok == << "0", "1", "2", "3", "4", "5", "6", "7", "8", "9" >>

\* `${n}`: the decimal digits of a counter value
RECURSIVE Decimal(_)
Decimal(n) ==
    IF n < 10 THEN << DigitTok[n + 1] >>
    ELSE Decimal(n \div 10) \o << DigitTok[(n % 10) + 1] >>

\* `<REDACTED_${id}>` with id = `SECRET_${n}`
Placeholder(n) == << "<REDACTED_SECRET_" >> \o Decimal(n) \o << ">" >>

\* AES-256-CBC under the machine key; what decrypt returns for what encrypt
\* produced under the same key is the plaintext
encrypt(plaintext) == [ cipher |-> "aes-256-cbc", data |-> plaintext ]
decrypt(encrypted) == encrypted.data

EmptyRegistry == [ secrets |-> << >>, secretCounter |-> 0 ]

\* a registerSecret that mints an entry without looking for the plaintext
registerSecretNoLookup(reg, plaintext, sessionId) ==
    LET n == reg.secretCounter + 1
        entry == [ id |-> n,
                   placeholder |-> Placeholder(n),
                   encryptedValue |-> encrypt(plaintext),
                   sessionId |-> sessionId ]
    IN  [ registry |-> [ secrets |-> Append(reg.secrets, entry), secretCounter |-> n ],
          placeholder |-> entry.placeholder ]

\* registerSecret: [registry, placeholder]
registerSecret(reg, plaintext, sessionId) ==
    LET hits == { i \in 1..Len(reg.secrets) :
                    decrypt(reg.secrets[i].encryptedValue) = plaintext }
    IN  IF hits # {}
        THEN [ registry |-> reg,
               placeholder |->
                 reg.secrets[CHOOSE i \in hits : \A j \in hits : i <= j].placeholder ]
        ELSE LET n == reg.secretCounter + 1
                 entry == [ id |-> n,
                            placeholder |-> Placeholder(n),
                            encryptedValue |-> encrypt(plaintext),
                            sessionId |-> sessionId ]
             IN  [ registry |-> [ secrets |-> Append(reg.secrets, entry),
                                  secretCounter |-> n ],
                   placeholder |-> entry.placeholder ]

RECURSIVE RedactFrom(_, _, _)
RedactFrom(secrets, i, text) ==
    IF i > Len(secrets) THEN text
    ELSE RedactFrom(secrets, i + 1,
             ReplaceAll(text, decrypt(secrets[i].encryptedValue),
                        secrets[i].placeholder))

redactSecrets(reg, text) == RedactFrom(reg.secrets, 1, text)

RECURSIVE RestoreFrom(_, _, _)
RestoreFrom(secrets, i, text) ==
    IF i > Len(secrets) THEN text
    ELSE RestoreFrom(secrets, i + 1,
             ReplaceAll(text, secrets[i].placeholder,
                        decrypt(secrets[i].encryptedValue)))

restoreSecrets(reg, text) == RestoreFrom(reg.secrets, 1, text)

\* a clearSession that also rewinds secretCounter to the entries that remain
clearSessionResetsCounter(reg, sessionId) ==
    LET kept == SelectSeq(reg.secrets, LAMBDA e : e.sessionId # sessionId)
    IN  [ secrets |-> kept,
          secretCounter |-> IF kept = << >> THEN 0 ELSE kept[Len(kept)].id ]

\* a clearSession that empties the registry
clearSessionOfAll(reg, sessionId) == [ reg EXCEPT !.secrets = << >> ]

clearSession(reg, sessionId) ==
    [ reg EXCEPT !.secrets = SelectSeq(reg.secrets, LAMBDA e : e.sessionId # sessionId) ]

-----------------------------------------------------------------------------
(* Secret filter (PasswordFilter) *)

\* The secret patterns of the vendor profile, in the profile's order.  Each is
\* /KEYWORD\s+(\S+)/g with capture group 1: on texts without the words
\* "local", "remote", "ascii" and "hex" this is what the generic profile's
\* pre-shared-key and wpa-psk patterns match.
SecretPatterns == << [ keyword |-> "pre-shared-key" ], [ keyword |-> "wpa-psk" ] >>

RECURSIVE SpaceRun(_, _)
SpaceRun(s, i) == IF i <= Len(s) /\ IsSpace(s[i]) THEN 1 + SpaceRun(s, i + 1) ELSE 0

RECURSIVE NonSpaceRun(_, _)
NonSpaceRun(s, i) == IF i <= Len(s) /\ ~IsSpace(s[i]) THEN 1 + NonSpaceRun(s, i + 1) ELSE 0

\* text.matchAll(pattern): the captures of the successive matches
RECURSIVE MatchAllFrom(_, _, _)
MatchAllFrom(text, pattern, i) ==
    IF i > Len(text) THEN << >>
    ELSE IF text[i] = pattern.keyword
         THEN LET w == SpaceRun(text, i + 1)
                  c == NonSpaceRun(text, i + 1 + w)
              IN  IF w >= 1 /\ c >= 1
                  THEN << SubSeq(text, i + 1 + w, i + w + c) >>
                       \o MatchAllFrom(text, pattern, i + 1 + w + c)
                  ELSE MatchAllFrom(text, pattern, i + 1)
    ELSE MatchAllFrom(text, pattern, i + 1)

matchAll(text, pattern) == MatchAllFrom(text, pattern, 1)

\* secretValue.includes('REDACTED') || secretValue.includes('<removed>')
LooksRedacted(secretValue) ==
    \E i \in 1..Len(secretValue) : secretValue[i] \in {"<REDACTED_SECRET_", "<removed>"}

RECURSIVE FilterMatches(_, _, _, _)
FilterMatches(matches, filtered, reg, sessionId) ==
    IF matches = << >> THEN [ filtered |-> filtered, registry |-> reg ]
    ELSE LET secretValue == Head(matches)
         IN  IF LooksRedacted(secretValue)
             THEN FilterMatches(Tail(matches), filtered, reg, sessionId)
             ELSE LET r == registerSecret(reg, secretValue, sessionId)
                  IN  FilterMatches(Tail(matches),
                          ReplaceFirst(filtered, secretValue, r.placeholder),
                          r.registry, sessionId)

RECURSIVE FilterPatterns(_, _, _, _, _)
FilterPatterns(patterns, text, filtered, reg, sessionId) ==
    IF patterns = << >> THEN [ filtered |-> filtered, registry |-> reg ]
    ELSE LET st == FilterMatches(matchAll(text, Head(patterns)), filtered, reg, sessionId)
         IN  FilterPatterns(Tail(patterns), text, st.filtered, st.registry, sessionId)

\* PasswordFilter.filterOutput: [text, registry]
filterOutput(text, sessionId, secretPatterns, reg) ==
    LET st == FilterPatterns(secretPatterns, text, text, reg, sessionId)
    IN  [ text |-> redactSecrets(st.registry, st.filtered), registry |-> st.registry ]

-----------------------------------------------------------------------------
(* Control-sequence normaliser (TerminalOutputProcessor) *)

\* the tokens of the model whose character code is in 64..126
AnsiFinalTokens == { "a", "b", "c", "m", "K", "X", "Y", "[", "]", "\\", "@", "~" }

isAnsiTerminator(char) == char \in AnsiFinalTokens

\* character code in 32..126
isPrintable(char) == char \notin { NL, CR, BS, DEL, ESC, BEL, "\t", Wide }

RECURSIVE SkipCsi(_, _)
SkipCsi(text, i) ==
    IF i <= Len(text) /\ ~isAnsiTerminator(text[i]) THEN SkipCsi(text, i + 1) ELSE i

RECURSIVE SkipOsc(_, _)
SkipOsc(text, i) ==
    IF i > Len(text) THEN i - 1
    ELSE IF text[i] = BEL THEN i
    ELSE IF text[i] = ESC /\ i + 1 <= Len(text) /\ text[i + 1] = "\\" THEN i + 1
    ELSE SkipOsc(text, i + 1)

\* a skipAnsiEscape that consumes the ESC alone
skipAnsiEscapeEscOnly(text, startPos) == startPos

\* index of the last character the escape sequence at startPos consumes
skipAnsiEscape(text, startPos) ==
    LET i == startPos + 1
    IN  IF i > Len(text) THEN startPos
        ELSE IF text[i] = "[" THEN SkipCsi(text, i + 1)
        ELSE IF text[i] = "]" THEN SkipOsc(text, i + 1)
        ELSE i

RECURSIVE PcsLoop(_, _, _, _, _)
PcsLoop(output, i, lines, currentLine, cursorColumn) ==
    IF i > Len(output)
    THEN Join(IF currentLine # << >> THEN Append(lines, currentLine) ELSE lines, NL)
    ELSE LET char == output[i]
         IN  CASE char = CR -> PcsLoop(output, i + 1, lines, currentLine, 0)
               [] char = NL ->
                    PcsLoop(output, i + 1, Append(lines, currentLine), << >>, 0)
               [] char \in { BS, DEL } ->
                    IF cursorColumn > 0
                    THEN PcsLoop(output, i + 1, lines,
                             SubSeq(currentLine, 1, cursorColumn - 1)
                               \o SubSeq(currentLine, cursorColumn + 1, Len(currentLine)),
                             cursorColumn - 1)
                    ELSE PcsLoop(output, i + 1, lines, currentLine, cursorColumn)
               [] char = ESC ->
                    PcsLoop(output, skipAnsiEscape(output, i) + 1, lines,
                            currentLine, cursorColumn)
               [] OTHER ->
                    IF isPrintable(char)
                    THEN PcsLoop(output, i + 1, lines,
                             IF cursorColumn >= Len(currentLine)
                             THEN Append(currentLine, char)
                             ELSE SubSeq(currentLine, 1, cursorColumn) \o << char >>
                                  \o SubSeq(currentLine, cursorColumn + 2, Len(currentLine)),
                             cursorColumn + 1)
                    ELSE PcsLoop(output, i + 1, lines, currentLine, cursorColumn)

\* a normaliser that drops the control characters and renders nothing
processControlSequencesDropOnly(output) ==
    SelectSeq(output, LAMBDA char : char = NL \/ isPrintable(char))

processControlSequences(output) == PcsLoop(output, 1, << >>, << >>, 0)

-----------------------------------------------------------------------------
(* Bounds and scaled limits *)

\* SSHPseudoterminal.MAX_BUFFER_BYTES (10 MiB in the source), scaled down
MAX_BUFFER_BYTES == 5

\* maxScrollbackLines (the source enforces a floor of 100), scaled down
MaxScrollbackLines == 3

\* total number of output characters a run delivers
MaxOutput == 7

\* number of commands a run submits through sendText
MaxCommands == 3

\* number of keystroke chunks a run types
MaxInputs == 3

\* setDeviceType calls of a run
MaxDevices == 1

-----------------------------------------------------------------------------
(* Output buffer of the session engine *)

byteWidth(char) == IF char = Wide THEN 2 ELSE 1

\* Buffer.byteLength(s, 'utf8')
RECURSIVE byteLength(_)
byteLength(s) == IF s = << >> THEN 0 ELSE byteWidth(Head(s)) + byteLength(Tail(s))

\* Math.floor(MAX_BUFFER_BYTES * 0.8)
targetBytes == (MAX_BUFFER_BYTES * 8) \div 10

\* the while loop of the byte-limit branch
RECURSIVE ByteTrimLoop(_)
ByteTrimLoop(trimmedBuffer) ==
    IF byteLength(trimmedBuffer) > targetBytes
    THEN LET cutPoint == (Len(trimmedBuffer) * targetBytes) \div byteLength(trimmedBuffer)
         IN  ByteTrimLoop(LastChars(trimmedBuffer, cutPoint))
    ELSE trimmedBuffer

\* the byte-limit branch of trimOutputBuffer: the read cursor is not touched
ByteTrim(buffer) ==
    IF byteLength(buffer) > MAX_BUFFER_BYTES THEN ByteTrimLoop(buffer) ELSE buffer

\* the line-limit branch of trimOutputBuffer
LineTrim(buffer, readPos) ==
    LET lines == Split(buffer, NL)
    IN  IF Len(lines) > MaxScrollbackLines
        THEN LET kept == Join(SliceLast(lines, MaxScrollbackLines), NL)
             IN  [ outputBuffer |-> kept,
                   lastReadPosition |-> IF readPos > Len(kept) THEN Len(kept) ELSE readPos ]
        ELSE [ outputBuffer |-> buffer, lastReadPosition |-> readPos ]

\* trimOutputBuffer: [outputBuffer, lastReadPosition]
trimOutputBuffer(buffer, readPos) == LineTrim(ByteTrim(buffer), readPos)

-----------------------------------------------------------------------------
(* Vendor profiles: generic, and cisco_ios, which extends it *)

SessionId == "router1"      \* options.name, the session id given to the filter

DeviceTypes == { "generic", "cisco_ios" }

\* getVendor(deviceType): the profile's name, generic for an unknown type
getVendor(deviceType) == IF deviceType = "cisco_ios" THEN "cisco_ios" ELSE "generic"

paginationPromptPatterns(v) ==
    IF v = "cisco_ios" THEN << << " --More-- " >> >> ELSE << >>

\* the failure messages of subSessionFailurePatterns among the tokens
FailureTokens(v) ==
    IF v = "cisco_ios"
    THEN { "Connection refused", "% Invalid input detected" }
    ELSE { "Connection refused", "Permission denied" }

PromptToken == "R1#"

\* tokens all of whose characters are in [a-zA-Z0-9-_.()]
PromptNameTokens == { "a", "b", "c", "1", "h1", "ssh", "telnet", "connect" }

\* promptPatterns on a trimmed last line: cisco_ios /^[a-zA-Z0-9-_.()]+[>#]\s*$/,
\* generic /[>#$]\s*$/
promptPatternTest(v, lastLine) ==
    /\ lastLine # << >>
    /\ IF v = "cisco_ios"
       THEN /\ Last(lastLine) = PromptToken
            /\ \A i \in 1..(Len(lastLine) - 1) : lastLine[i] \in PromptNameTokens
       ELSE Last(lastLine) \in { PromptToken, "$" }

\* subSessionSuccessPatterns: some line ends, up to trailing whitespace, in a
\* prompt; cisco_ios /[A-Za-z0-9_-]+[>#]\s*$/m, generic /\S+[>#$]\s*$/m
subSessionSuccessTest(v, data) ==
    \E i \in 1..Len(Split(data, NL)) :
        LET line == TrimEnd(Split(data, NL)[i])
        IN  /\ line # << >>
            /\ \/ Last(line) = PromptToken
               \/ /\ v = "generic"
                  /\ Last(line) = "$"
                  /\ Len(line) >= 2
                  /\ ~IsSpace(line[Len(line) - 1])

\* any of subSessionFailurePatterns
subSessionFailureTest(v, data) == \E i \in 1..Len(data) : data[i] \in FailureTokens(v)

-----------------------------------------------------------------------------
(* Sub-session command detection *)

\* the words of a trimmed command line: its maximal runs of non-space tokens
RECURSIVE Words(_)
Words(s) ==
    LET t == TrimStart(s)
        n == NonSpaceRun(t, 1)
    IN  IF t = << >> THEN << >>
        ELSE << SubSeq(t, 1, n) >> \o Words(SubSeq(t, n + 1, Len(t)))

\* group 3 of /^(ssh|telnet)\s+([^\s@]+@)?([^\s]+)/ for the word after the verb
AfterUser(word) ==
    LET i == IndexOf(word, << "@" >>, 1)
    IN  IF i > 1 /\ i < Len(word) THEN SubSeq(word, i + 1, Len(word)) ELSE word

IsNumberWord(word) == word # << >> /\ word[1] \in { "23", "1", "2" }

\* the host each subSessionCommandPatterns entry captures (match[3] ||
\* match[2] || match[1]), << >> when the pattern does not match; the generic
\* profile has the first three patterns, cisco_ios all six
CommandPatternHosts(v, command) ==
    LET w == Words(command)
        n == Len(w)
        verb == IF n >= 1 THEN w[1] ELSE << >>
        cisco == v = "cisco_ios"
    IN  << \* /^(ssh|telnet)\s+([^\s@]+@)?([^\s]+)/
           IF n >= 2 /\ verb \in { << "ssh" >>, << "telnet" >> } THEN AfterUser(w[2]) ELSE << >>,
           \* /^ssh\s+-l\s+\S+\s+([^\s]+)/
           IF n >= 4 /\ verb = << "ssh" >> /\ w[2] = << "-l" >> THEN w[4] ELSE << >>,
           \* /^telnet\s+([^\s]+)\s+\d+/
           IF n >= 3 /\ verb = << "telnet" >> /\ IsNumberWord(w[3]) THEN w[2] ELSE << >>,
           \* /^connect\s+([^\s]+)/
           IF cisco /\ n >= 2 /\ verb = << "connect" >> THEN w[2] ELSE << >>,
           \* /^ssh\s+(?:-l\s+\S+\s+)?(?:-v\s+[12]\s+)?([^\s]+)/
           IF cisco /\ n >= 2 /\ verb = << "ssh" >>
           THEN LET a == IF n >= 4 /\ w[2] = << "-l" >> THEN 4 ELSE 2
                    b == IF n >= a + 2 /\ w[a] = << "-v" >> /\ w[a + 1] \in { << "1" >>, << "2" >> }
                         THEN a + 2 ELSE a
                IN  w[b]
           ELSE << >>,
           \* /^telnet\s+(\d+\.\d+\.\d+\.\d+)/
           IF cisco /\ n >= 2 /\ verb = << "telnet" >> /\ w[2][1] = "10.0.0.1" THEN << "10.0.0.1" >> ELSE << >>
        >>

\* the first pattern whose host is usable, as the for loop finds it
FirstHost(hosts) ==
    LET ok == { i \in 1..Len(hosts) :
                  hosts[i] # << >> /\ hosts[i] # << "ssh" >> /\ hosts[i] # << "telnet" >> }
    IN  IF ok = {} THEN << >> ELSE hosts[CHOOSE i \in ok : \A j \in ok : i <= j]

\* a detector that starts a new attempt also while one is pending
detectSubsessionWhilePending(v, commandLine, pendingHost, timer) ==
    LET command == Trim(commandLine)
        host == FirstHost(CommandPatternHosts(v, command))
    IN  IF command # << >> /\ host # << >>
        THEN [ pendingSubSessionHost |-> host, subSessionDetectionTimer |-> TRUE ]
        ELSE [ pendingSubSessionHost |-> pendingHost, subSessionDetectionTimer |-> timer ]

\* detectSubsession: [pendingSubSessionHost, subSessionDetectionTimer]
detectSubsession(v, commandLine, pendingHost, timer) ==
    LET command == Trim(commandLine)
        host == FirstHost(CommandPatternHosts(v, command))
    IN  IF command # << >> /\ pendingHost = << >> /\ host # << >>
        THEN [ pendingSubSessionHost |-> host, subSessionDetectionTimer |-> TRUE ]
        ELSE [ pendingSubSessionHost |-> pendingHost, subSessionDetectionTimer |-> timer ]

\* a detector that tries the success patterns before the failure patterns
detectSubSessionStatusSuccessFirst(v, data, pendingHost, timer) ==
    IF pendingHost = << >>
    THEN [ pendingSubSessionHost |-> pendingHost, subSessionDetectionTimer |-> timer,
           events |-> << >> ]
    ELSE IF subSessionSuccessTest(v, data)
    THEN [ pendingSubSessionHost |-> << >>, subSessionDetectionTimer |-> FALSE,
           events |-> << [ kind |-> "subsession", host |-> pendingHost ] >> ]
    ELSE IF subSessionFailureTest(v, data)
    THEN [ pendingSubSessionHost |-> << >>, subSessionDetectionTimer |-> FALSE,
           events |-> << >> ]
    ELSE [ pendingSubSessionHost |-> pendingHost, subSessionDetectionTimer |-> timer,
           events |-> << >> ]

\* _detectSubSessionStatus: [pendingSubSessionHost, subSessionDetectionTimer, events]
detectSubSessionStatus(v, data, pendingHost, timer) ==
    IF pendingHost = << >>
    THEN [ pendingSubSessionHost |-> pendingHost, subSessionDetectionTimer |-> timer,
           events |-> << >> ]
    ELSE IF subSessionFailureTest(v, data)
    THEN [ pendingSubSessionHost |-> << >>, subSessionDetectionTimer |-> FALSE,
           events |-> << >> ]
    ELSE IF subSessionSuccessTest(v, data)
    THEN [ pendingSubSessionHost |-> << >>, subSessionDetectionTimer |-> FALSE,
           events |-> << [ kind |-> "subsession", host |-> pendingHost ] >> ]
    ELSE [ pendingSubSessionHost |-> pendingHost, subSessionDetectionTimer |-> timer,
           events |-> << >> ]

\* the delay of the sub-session expiry timer (5 s in the source), in ticks
SUBSESSION_TIMEOUT == 2

\* setTimeout(..., 5000) in detectSubsession: the time at which the expiry timer
\* is due after a handler that armed it (armed), left it alone, or cleared it
subTimerDue(due, armed, pendingHost, now) ==
    IF armed THEN now + SUBSESSION_TIMEOUT
    ELSE IF pendingHost = << >> THEN 0
    ELSE due

-----------------------------------------------------------------------------
(* Authentication-prompt detector *)

\* String.prototype.toLowerCase on the tokens that have upper-case letters
toLowerCase(char) ==
    CASE char = "Password:" -> "password:"
      [] char = "Passphrase" -> "passphrase"
      [] char = "OTP" -> "otp"
      [] OTHER -> char

\* authPromptPatterns, one tier per field
authPromptPatterns ==
    [ password |-> { "password:", "password for", "enter password", "'s password:" },
      passphrase |-> { "passphrase", "enter passphrase for", "bad passphrase" },
      keyboardInteractive |->
          { "verification code", "authentication code", "token", "otp", "challenge" } ]

IncludesAny(line, patterns) == \E i \in 1..Len(line) : toLowerCase(line[i]) \in patterns

\* the tier loops of detectAuthPrompt: password, then passphrase, then
\* keyboard-interactive; "none" is null
promptTypeOf(line) ==
    IF IncludesAny(line, authPromptPatterns.password) THEN "password"
    ELSE IF IncludesAny(line, authPromptPatterns.passphrase) THEN "passphrase"
    ELSE IF IncludesAny(line, authPromptPatterns.keyboardInteractive) THEN "keyboardInteractive"
    ELSE "none"

NoTimer == [ armed |-> FALSE, type |-> "none" ]

\* a detector that lets a newline neither cancel the timer nor clear the line
detectAuthPromptThroughNewline(data, pending) ==
    LET line == pending \o data
        promptType == promptTypeOf(line)
    IN  [ promptDetectionTimer |->
              IF promptType # "none"
              THEN [ armed |-> TRUE, type |-> promptType ]
              ELSE NoTimer,
          pendingLine |-> line ]

\* detectAuthPrompt: [pendingLine, promptDetectionTimer]
detectAuthPrompt(data, pending) ==
    LET line == pending \o data
        promptType == promptTypeOf(line)
        hasNoNewline == ~HasToken(line, NL)
    IN  [ promptDetectionTimer |->
              IF promptType # "none" /\ hasNoNewline
              THEN [ armed |-> TRUE, type |-> promptType ]
              ELSE NoTimer,
          pendingLine |-> IF HasToken(line, NL) THEN << >> ELSE line ]

\* the delay of the debounce timer (300 ms in the source), in ticks
AUTH_DEBOUNCE == 2

\* a detector that leaves a timer that is already armed to run on
timerDueFirstOnly(due, wasArmed, armed, now) ==
    IF armed THEN (IF wasArmed THEN due ELSE now + AUTH_DEBOUNCE) ELSE 0

\* clearTimeout(promptDetectionTimer), then setTimeout(..., 300) where the
\* detector arms the timer: the time at which the armed timer is due
timerDue(due, wasArmed, armed, now) ==
    IF armed THEN now + AUTH_DEBOUNCE ELSE 0

-----------------------------------------------------------------------------
(* sendText, the command queue and the pagination detector *)

\* the fields sendText and detectPaginationPrompt read and write
Session ==
    [ isPaginating |-> isPaginating,
      commandQueue |-> commandQueue,
      autoPaginateEnabled |-> autoPaginateEnabled,
      paginationBuffer |-> paginationBuffer,
      visibleCommandLine |-> visibleCommandLine,
      vendor |-> vendor,
      pendingSubSessionHost |-> pendingSubSessionHost,
      subSessionDetectionTimer |-> subSessionDetectionTimer,
      written |-> << >> ]

\* sendText(text, addNewLine, autoPaginate) on session fields S
sendText(S, text, addNewLine, autoPaginate, proc, reg) ==
    IF S.isPaginating
    THEN [ S EXCEPT !.commandQueue = Append(@, [ text |-> text, addNewLine |-> addNewLine ]) ]
    ELSE LET S1 == IF autoPaginate THEN [ S EXCEPT !.autoPaginateEnabled = TRUE ] ELSE S
             restoredText == restoreSecrets(reg, text)
         IN  IF proc = "none" THEN S1
             ELSE IF addNewLine
             THEN LET d == detectSubsession(S1.vendor, Trim(text), S1.pendingSubSessionHost,
                                            S1.subSessionDetectionTimer)
                  IN  [ S1 EXCEPT
                          !.written = Append(@, [ data |-> restoredText \o << NL >>,
                                                  by |-> "sendText" ]),
                          !.pendingSubSessionHost = d.pendingSubSessionHost,
                          !.subSessionDetectionTimer = d.subSessionDetectionTimer,
                          !.visibleCommandLine = << >> ]
             ELSE [ S1 EXCEPT
                      !.written = Append(@, [ data |-> restoredText, by |-> "sendText" ]),
                      !.visibleCommandLine = Trim(text) ]

\* a drain that takes the newest command first (pop() in place of shift())
RECURSIVE sendQueuedCommandsNewestFirst(_, _, _)
sendQueuedCommandsNewestFirst(S, proc, reg) ==
    IF S.commandQueue = << >> THEN S
    ELSE LET command == S.commandQueue[Len(S.commandQueue)]
         IN  sendQueuedCommandsNewestFirst(
                 sendText([ S EXCEPT !.commandQueue = SubSeq(@, 1, Len(@) - 1) ],
                          command.text, command.addNewLine, FALSE, proc, reg),
                 proc, reg)

\* a drain that sends the first queued command only (if in place of while)
sendQueuedCommandsFirstOnly(S, proc, reg) ==
    IF S.commandQueue = << >> THEN S
    ELSE LET command == Head(S.commandQueue)
         IN  sendText([ S EXCEPT !.commandQueue = Tail(@) ],
                      command.text, command.addNewLine, FALSE, proc, reg)

\* sendQueuedCommands: shift() until the queue is empty
RECURSIVE sendQueuedCommands(_, _, _)
sendQueuedCommands(S, proc, reg) ==
    IF S.commandQueue = << >> THEN S
    ELSE LET command == Head(S.commandQueue)
         IN  sendQueuedCommands(
                 sendText([ S EXCEPT !.commandQueue = Tail(@) ],
                          command.text, command.addNewLine, FALSE, proc, reg),
                 proc, reg)

IsCsiParam(char) == char \in { "0", "1", "2", "3", "4", "5", "6", "7", "8", "9", ";" }
IsLetter(char) == char \in { "a", "b", "c", "m", "K", "X", "Y" }

RECURSIVE ParamRun(_, _)
ParamRun(s, i) == IF i <= Len(s) /\ IsCsiParam(s[i]) THEN 1 + ParamRun(s, i + 1) ELSE 0

\* buffer.replace(/\u001b\[[0-9;]*[a-zA-Z]/g, '')
RECURSIVE StripCsi(_)
StripCsi(s) ==
    IF s = << >> THEN << >>
    ELSE IF Len(s) >= 3 /\ s[1] = ESC /\ s[2] = "["
            /\ 3 + ParamRun(s, 3) <= Len(s) /\ IsLetter(s[3 + ParamRun(s, 3)])
         THEN StripCsi(SubSeq(s, 4 + ParamRun(s, 3), Len(s)))
    ELSE << Head(s) >> \o StripCsi(Tail(s))

\* detectPaginationPrompt(text) on session fields S
detectPaginationPrompt(S, text, proc, reg) ==
    IF ~S.autoPaginateEnabled THEN S
    ELSE IF paginationPromptPatterns(S.vendor) = << >>
    THEN IF S.isPaginating
         THEN sendQueuedCommands(
                  [ S EXCEPT !.isPaginating = FALSE, !.autoPaginateEnabled = FALSE ],
                  proc, reg)
         ELSE S
    ELSE LET buffer == S.paginationBuffer \o text
             cleanedBuffer == StripCsi(buffer)
             foundMore == \E i \in 1..Len(paginationPromptPatterns(S.vendor)) :
                              EndsWith(cleanedBuffer, paginationPromptPatterns(S.vendor)[i])
             lastLine == Trim(Last(Split(cleanedBuffer, NL)))
         IN  IF foundMore
             THEN [ S EXCEPT !.isPaginating = TRUE,
                             !.paginationBuffer = << >>,
                             !.written = Append(@, [ data |-> << " " >>, by |-> "pagination" ]) ]
             ELSE IF S.isPaginating /\ promptPatternTest(S.vendor, lastLine)
             THEN sendQueuedCommands(
                      [ S EXCEPT !.isPaginating = FALSE,
                                 !.autoPaginateEnabled = FALSE,
                                 !.paginationBuffer = << >> ],
                      proc, reg)
             ELSE [ S EXCEPT !.paginationBuffer = buffer ]

\* the new values of the session fields
Install(S) ==
    /\ isPaginating' = S.isPaginating
    /\ commandQueue' = S.commandQueue
    /\ autoPaginateEnabled' = S.autoPaginateEnabled
    /\ paginationBuffer' = S.paginationBuffer
    /\ visibleCommandLine' = S.visibleCommandLine
    /\ pendingSubSessionHost' = S.pendingSubSessionHost
    /\ subSessionDetectionTimer' = S.subSessionDetectionTimer
    /\ written' = S.written

-----------------------------------------------------------------------------
(* Input echo tracker *)

IsFinalByte(char) == char \in AnsiFinalTokens

RECURSIVE SkipInputCsi(_, _)
SkipInputCsi(data, i) ==
    IF i > Len(data) THEN i
    ELSE IF IsFinalByte(data[i]) THEN i
    ELSE SkipInputCsi(data, i + 1)

RECURSIVE SkipInputOsc(_, _)
SkipInputOsc(data, i) ==
    IF i > Len(data) THEN i
    ELSE IF data[i] = BEL THEN i
    ELSE IF data[i] = ESC /\ i + 1 <= Len(data) /\ data[i + 1] = "\\" THEN i + 1
    ELSE SkipInputOsc(data, i + 1)

\* skipEscapeSequence(data, startIndex)
skipEscapeSequence(data, startIndex) ==
    LET i == startIndex + 1
    IN  IF i > Len(data) THEN i
        ELSE IF data[i] = "[" THEN SkipInputCsi(data, i + 1)
        ELSE IF data[i] = "]" THEN SkipInputOsc(data, i + 1)
        ELSE i

\* the Ctrl+W branch: trimEnd, then cut after the last space
DeleteWord(line) ==
    LET t == TrimEnd(line)
        spaces == { i \in 1..Len(t) : t[i] = " " }
    IN  IF spaces = {} THEN << >>
        ELSE SubSeq(t, 1, CHOOSE i \in spaces : \A j \in spaces : j <= i)

RECURSIVE UvclLoop(_, _, _)
UvclLoop(data, i, line) ==
    IF i > Len(data) THEN line
    ELSE LET char == data[i]
         IN  CASE char \in { "^C", "^U" } -> UvclLoop(data, i + 1, << >>)
               [] char = "^W" -> UvclLoop(data, i + 1, DeleteWord(line))
               [] char \in { BS, DEL } ->
                    UvclLoop(data, i + 1,
                             IF line # << >> THEN SubSeq(line, 1, Len(line) - 1) ELSE line)
               [] char \in { CR, NL } -> UvclLoop(data, i + 1, line)
               [] char = ESC -> UvclLoop(data, skipEscapeSequence(data, i) + 1, line)
               [] char = BEL -> UvclLoop(data, i + 1, line)
               [] OTHER -> UvclLoop(data, i + 1, Append(line, char))

\* updateVisibleCommandLine(data)
updateVisibleCommandLine(data, line) == UvclLoop(data, 1, line)

-----------------------------------------------------------------------------
(* Tool-facing reads *)

\* filterOutputForLLM: [text, registry]
filterOutputForLLM(output, reg) ==
    LET f == filterOutput(output, SessionId, SecretPatterns, reg)
    IN  [ text |-> processControlSequences(f.text), registry |-> f.registry ]

\* the "lines !== undefined" branch of getRecentOutput
lastLines(buffer, lines) == Join(SliceLast(Split(buffer, NL), lines), NL)

-----------------------------------------------------------------------------
(* History kept for the properties *)

NoValue == << "no read" >>

\* the connections a run of the IPC server sees, none of them open yet
Connections == { "c1", "c2", "c3" }
\* ClientState of a socket; open = FALSE stands for a socket that is not in
\* IPCServer.clients
NoClientState == [ open |-> FALSE, requestCount |-> 0, authenticated |-> FALSE ]
NoClients == [ c \in Connections |-> NoClientState ]

\* no entry in SessionManager.activeSessions: connect() has not run
NoSession == [ contextStack |-> << >>, subSessionStack |-> << >> ]

\* a JSON-RPC request as it is parsed from a line of a socket
NoRequest == [ method |-> "none", params |-> "none", token |-> "none",
               signature |-> << >>, _signature |-> << >> ]

InitHist ==
    [ total |-> 0,          \* output characters delivered so far
      unread |-> {},        \* numbers of the buffered characters no incremental read returned
      raw |-> << >>,        \* the raw output so far, where a specification tracks it
      op |-> "new",         \* the operation that led to this state
      arg |-> << >>,        \* the chunk, keystrokes or command of that operation
      dispatch |-> "idle",  \* whose command is running: "tool" (sendText with
                            \* autoPaginate) until the device prompt returns
      attempt |-> "none",   \* fate of the latest sub-session attempt
      attemptBefore |-> "none",  \* that fate when the operation began
      hostBefore |-> << >>,      \* the pending sub-session host when the operation began
      timerBefore |-> NoTimer,   \* the debounce timer when the operation began
      subTimerBefore |-> FALSE,  \* the sub-session timer when the operation began
      frozenLine |-> << >>,      \* the command line the latest Enter froze
      registryBefore |-> EmptyRegistry, \* the registry when the latest filterOutput began
      queuedBefore |-> << >>,    \* the command queue when the operation began
      pagingBefore |-> FALSE,    \* isPaginating when the operation began
      bufferBefore |-> << >>,    \* the buffer of BufferManager, or the trailing buffer of
                                 \* PaginationHandler, when its latest operation began
      cursorBefore |-> 0,        \* BufferManager's read cursor at that moment
      approved |-> FALSE,        \* the user's answer in the latest approval dialog
      sessionId |-> "none",      \* the session of the latest registry operation
      seen |-> {},               \* placeholders the reads of session "B" returned
      now |-> 0,                 \* Date.now(), in ticks
      processed |-> << >>,       \* the times of the lines handed to handleRequest
      lineBefore |-> << >>,      \* visibleCommandLine before the latest step
      subDue |-> 0,              \* the time the armed sub-session timer is due
      pendingSince |-> 0,        \* the time the pending sub-session was recorded
      boxLine |-> << >>,         \* the pending line an open input box was raised for,
                                 \* until a newline ends that line
      boxBefore |-> << >>,       \* boxLine when the operation began
      auto |-> FALSE,            \* autoPaginate of the latest sendText
      autoQueued |-> << >>,      \* autoPaginate of each queued command, as submitted
      autoQueuedBefore |-> << >>,\* autoQueued when the operation began
      incremental |-> FALSE,     \* the latest toolReadOutput had no line count
      issued |-> {},             \* every [placeholder, plaintext] a registry entry bound
      chunkAt |-> 0,             \* the time of the latest output chunk
      due |-> 0,                 \* the time the armed debounce timer is due
      closed |-> FALSE,          \* close() has been called
      exited |-> FALSE,          \* the process has exited
      conn |-> "none",           \* the socket of the latest IPC step
      request |-> NoRequest,     \* the request of the latest IPC step
      authBefore |-> FALSE,      \* ClientState.authenticated of that socket before it
      pattern |-> "none",        \* the devicePromptPattern of the latest
                                 \* detectAndHandlePagination
      nCommands |-> 0,
      nInputs |-> 0,
      nDevices |-> 0 ]

\* the number of the character at buffer position i
CharNumber(i) == hist.total - Len(outputBuffer) + i

\* the chunk ends with the device prompt: the running command is over
PromptReappears(data) == promptPatternTest(vendor, Trim(Last(Split(StripCsi(data), NL))))

Before ==
    [ hist EXCEPT !.attemptBefore = hist.attempt,
                  !.hostBefore = pendingSubSessionHost,
                  !.timerBefore = promptDetectionTimer,
                  !.subTimerBefore = subSessionDetectionTimer,
                  !.frozenLine = << >>,
                  !.lineBefore = visibleCommandLine,
                  !.autoQueuedBefore = hist.autoQueued,
                  !.boxBefore = hist.boxLine,
                  !.queuedBefore = commandQueue,
                  !.pagingBefore = isPaginating ]

-----------------------------------------------------------------------------
(* The session engine: state after construction, and one action per handler *)

Init ==
    /\ outputBuffer = << >>
    /\ lastReadPosition = 0
    /\ process = "none"
    /\ isConnected = FALSE
    /\ pendingLine = << >>
    /\ promptDetectionTimer = NoTimer
    /\ authWaiting = 0
    /\ pendingSubSessionHost = << >>
    /\ subSessionDetectionTimer = FALSE
    /\ paginationBuffer = << >>
    /\ isPaginating = FALSE
    /\ commandQueue = << >>
    /\ autoPaginateEnabled = FALSE
    /\ visibleCommandLine = << >>
    /\ vendor = "generic"
    /\ registry = EmptyRegistry
    /\ strictModeEnabled = FALSE
    /\ dialogs = << >>
    /\ clients = NoClients
    /\ activeSession = NoSession
    /\ written = << >>
    /\ events = << >>
    /\ returned = NoValue
    /\ hist = InitHist

bufferVars == << outputBuffer, lastReadPosition >>
toolVars == << strictModeEnabled, dialogs, clients, activeSession >>
authVars == << pendingLine, promptDetectionTimer, authWaiting >>
sessionVars == << isPaginating, commandQueue, autoPaginateEnabled, paginationBuffer,
                  visibleCommandLine, pendingSubSessionHost, subSessionDetectionTimer >>

\* open(): spawn the process
Open ==
    /\ process = "none"
    /\ process' = "running"
    /\ isConnected' = TRUE
    /\ written' = << >> /\ events' = << >> /\ returned' = NoValue
    /\ hist' = [ Before EXCEPT !.op = "open", !.arg = << >> ]
    /\ UNCHANGED << toolVars, vendor, bufferVars, authVars, sessionVars, registry >>

\* the fate of the latest sub-session attempt after a handler that took the
\* pending host from h0 over h1 (after _detectSubSessionStatus) to h2
AttemptAfter(old, failed, h0, h1, h2, fired) ==
    IF h2 # << >> /\ (h1 = << >> \/ h0 = << >>) THEN "pending"
    ELSE IF h0 # << >> /\ failed THEN "failed"
    ELSE IF h0 # << >> /\ fired THEN "entered"
    ELSE old

\* the same handler has armed the expiry timer for a sub-session attempt
ArmedAnew(h0, h1, h2) == h2 # << >> /\ (h1 = << >> \/ h0 = << >>)

\* the record of a handler that left the session as S: the fate and the expiry
\* time of the sub-session attempt and, for a handler that may drain the
\* queue, the flags of the commands still queued
AfterHandler(h, failed, h0, h1, S, fired, now, drains) ==
    [ h EXCEPT
        !.autoQueued = IF drains /\ S.commandQueue = << >> THEN << >> ELSE @,
        !.attempt = AttemptAfter(@, failed, h0, h1, S.pendingSubSessionHost, fired),
        !.subDue = subTimerDue(@, ArmedAnew(h0, h1, S.pendingSubSessionHost),
                               S.pendingSubSessionHost, now),
        !.pendingSince = IF ArmedAnew(h0, h1, S.pendingSubSessionHost) THEN now ELSE @ ]

\* the dispatch of the commands after a chunk that left the queue as queue
DispatchAfterData(old, queue, reappears) ==
    IF Len(queue) < Len(commandQueue) THEN "queued"
    ELSE IF reappears THEN "idle" ELSE old

\* process.onData handler
OnData(data, track) ==
    /\ process \in { "running", "killed" }
    /\ hist.total + Len(data) <= MaxOutput
    /\ LET t == trimOutputBuffer(outputBuffer \o data, lastReadPosition)
           a == detectAuthPrompt(data, pendingLine)
           d == detectSubSessionStatus(vendor, data, pendingSubSessionHost,
                                       subSessionDetectionTimer)
           S == detectPaginationPrompt(
                    [ Session EXCEPT !.pendingSubSessionHost = d.pendingSubSessionHost,
                                     !.subSessionDetectionTimer = d.subSessionDetectionTimer ],
                    data, process, registry)
           total == hist.total + Len(data)
       IN  /\ outputBuffer' = t.outputBuffer
           /\ lastReadPosition' = t.lastReadPosition
           /\ pendingLine' = a.pendingLine
           /\ promptDetectionTimer' = a.promptDetectionTimer
           /\ Install(S)
           /\ events' = d.events
           /\ hist' = [ AfterHandler(Before,
                                       pendingSubSessionHost # << >>
                                         /\ subSessionFailureTest(vendor, data),
                                       pendingSubSessionHost, d.pendingSubSessionHost,
                                       S, d.events # << >>, hist.now, TRUE) EXCEPT
                          !.total = total,
                          !.unread = { n \in hist.unread \cup ((hist.total + 1)..total) :
                                         n > total - Len(t.outputBuffer) },
                          !.raw = IF track THEN @ \o data ELSE @,
                          !.op = "data",
                          !.arg = data,
                          !.chunkAt = hist.now,
                          !.boxLine = IF HasToken(data, NL) THEN << >> ELSE @,
                          !.due = timerDue(@, promptDetectionTimer.armed,
                                           a.promptDetectionTimer.armed, hist.now),
                          !.dispatch = DispatchAfterData(@, S.commandQueue,
                                                         PromptReappears(data)) ]
    /\ returned' = NoValue
    /\ UNCHANGED << toolVars, vendor, process, isConnected, authWaiting, registry >>

\* an exit handler that tears the session's buffer down
OnExitTearsDown ==
    /\ process \in { "running", "killed" }
    /\ process' = "exited"
    /\ isConnected' = FALSE
    /\ outputBuffer' = << >>
    /\ lastReadPosition' = 0
    /\ events' = << [ kind |-> "exit", text |-> << >>, type |-> "none" ] >>
    /\ written' = << >> /\ returned' = NoValue
    /\ hist' = [ Before EXCEPT !.op = "exit", !.arg = << >>, !.exited = TRUE ]
    /\ UNCHANGED << toolVars, vendor, authVars, sessionVars, registry >>

\* process.onExit handler
OnExit ==
    /\ process \in { "running", "killed" }
    /\ process' = "exited"
    /\ isConnected' = FALSE
    /\ events' = << [ kind |-> "exit", text |-> << >>, type |-> "none" ] >>
    /\ written' = << >> /\ returned' = NoValue
    /\ hist' = [ Before EXCEPT !.op = "exit", !.arg = << >>, !.exited = TRUE ]
    /\ UNCHANGED << toolVars, vendor, bufferVars, authVars, sessionVars, registry >>

\* process.kill() as close() calls it
Killed(proc) == IF proc = "running" THEN "killed" ELSE proc

\* close()
Close ==
    /\ process # "none"
    /\ promptDetectionTimer' = NoTimer
    /\ subSessionDetectionTimer' = FALSE
    /\ process' = Killed(process)
    /\ written' = << >> /\ events' = << >> /\ returned' = NoValue
    /\ hist' = [ Before EXCEPT !.op = "close", !.arg = << >>, !.closed = TRUE ]
    /\ UNCHANGED << toolVars, vendor, bufferVars, isConnected, pendingLine, authWaiting, isPaginating,
                    commandQueue, autoPaginateEnabled, paginationBuffer,
                    visibleCommandLine, pendingSubSessionHost, registry >>

IsEnter(data) == data = << CR >> \/ data = << NL >>

\* handleInput(data)
HandleInput(data) ==
    /\ hist.nInputs < MaxInputs
    /\ LET line == updateVisibleCommandLine(data, visibleCommandLine)
           d == IF IsEnter(data)
                THEN detectSubsession(vendor, line, pendingSubSessionHost,
                                      subSessionDetectionTimer)
                ELSE [ pendingSubSessionHost |-> pendingSubSessionHost,
                       subSessionDetectionTimer |-> subSessionDetectionTimer ]
       IN  /\ written' = IF process # "none"
                         THEN << [ data |-> data, by |-> "input" ] >> ELSE << >>
           /\ visibleCommandLine' = IF IsEnter(data) THEN << >> ELSE line
           /\ pendingSubSessionHost' = d.pendingSubSessionHost
           /\ subSessionDetectionTimer' = d.subSessionDetectionTimer
           /\ hist' = [ AfterHandler(Before, FALSE, pendingSubSessionHost,
                                       pendingSubSessionHost, d, FALSE, hist.now,
                                       FALSE) EXCEPT
                          !.op = "input",
                          !.arg = data,
                          !.frozenLine = IF IsEnter(data) THEN Trim(line) ELSE << >>,
                          !.nInputs = @ + 1,
                          !.dispatch = IF (HasToken(data, CR) \/ HasToken(data, NL))
                                          /\ @ # "tool"
                                       THEN "human" ELSE @ ]
    /\ events' = << >> /\ returned' = NoValue
    /\ UNCHANGED << toolVars, vendor, bufferVars, process, isConnected, authVars, isPaginating, commandQueue,
                    autoPaginateEnabled, paginationBuffer, registry >>

\* sendText(text, addNewLine, autoPaginate) called by a tool
SendText(text, addNewLine, autoPaginate) ==
    /\ hist.nCommands < MaxCommands
    /\ LET S == sendText(Session, text, addNewLine, autoPaginate, process, registry)
       IN  /\ Install(S)
           /\ hist' = [ AfterHandler(Before, FALSE, pendingSubSessionHost,
                                       pendingSubSessionHost, S, FALSE, hist.now,
                                       FALSE) EXCEPT
                          !.op = "sendText",
                          !.arg = text,
                          !.auto = autoPaginate,
                          !.autoQueued = IF isPaginating THEN Append(@, autoPaginate) ELSE @,
                          !.nCommands = @ + 1,
                          !.dispatch = IF S.written = << >> THEN @
                                       ELSE IF autoPaginate \/ @ = "tool" THEN "tool"
                                       ELSE "plain" ]
    /\ events' = << >> /\ returned' = NoValue
    /\ UNCHANGED << toolVars, vendor, bufferVars, process, isConnected, authVars, registry >>

\* setDeviceType(deviceType): swap the profile, then look at the buffered
\* pagination data under the new profile
SetDeviceType(deviceType) ==
    /\ hist.nDevices < MaxDevices
    /\ vendor' = getVendor(deviceType)
    /\ LET S0 == [ Session EXCEPT !.vendor = getVendor(deviceType) ]
           S == IF paginationBuffer # << >>
                THEN detectPaginationPrompt(S0, << >>, process, registry)
                ELSE S0
       IN  /\ Install(S)
           /\ hist' = [ AfterHandler(Before, FALSE, pendingSubSessionHost,
                                       pendingSubSessionHost, S, FALSE, hist.now,
                                       TRUE) EXCEPT
                          !.op = "setDeviceType",
                          !.arg = << deviceType >>,
                          !.nDevices = @ + 1 ]
    /\ events' = << >> /\ returned' = NoValue
    /\ UNCHANGED << toolVars, bufferVars, process, isConnected, authVars, registry >>

\* a timer callback that forgets the timer and keeps the pending host
SubSessionTimeoutKeepsHost ==
    /\ subSessionDetectionTimer
    /\ subSessionDetectionTimer' = FALSE
    /\ written' = << >> /\ events' = << >> /\ returned' = NoValue
    /\ hist' = [ Before EXCEPT !.op = "subSessionTimeout", !.arg = << >>, !.subDue = 0 ]
    /\ UNCHANGED << toolVars, vendor, bufferVars, process, isConnected, authVars, isPaginating,
                    commandQueue, autoPaginateEnabled, paginationBuffer, visibleCommandLine,
                    pendingSubSessionHost, registry >>

\* the callback of the 5 s sub-session timer
SubSessionTimeout ==
    /\ subSessionDetectionTimer
    /\ pendingSubSessionHost' = << >>
    /\ subSessionDetectionTimer' = FALSE
    /\ written' = << >> /\ events' = << >> /\ returned' = NoValue
    /\ hist' = [ Before EXCEPT !.op = "subSessionTimeout", !.arg = << >>,
                               !.attempt = "expired", !.subDue = 0 ]
    /\ UNCHANGED << toolVars, vendor, bufferVars, process, isConnected, authVars, isPaginating, commandQueue,
                    autoPaginateEnabled, paginationBuffer, visibleCommandLine, registry >>

\* the callback of the 300 ms debounce timer, up to its await of handleAuthPrompt;
\* promptEnabled is the vibetty.ssh.enableReactiveAuth setting read at that moment
AuthTimerFire ==
    /\ promptDetectionTimer.armed
    /\ \E promptEnabled \in BOOLEAN :
         LET ok == pendingLine # << >> /\ ~HasToken(pendingLine, NL)
             lastLine == Last(Split(pendingLine, CR))
             fires == ok /\ Trim(lastLine) # << >>
         IN  /\ promptDetectionTimer' = NoTimer
             /\ events' = IF fires
                          THEN << [ kind |-> "auth", text |-> Trim(lastLine),
                                    type |-> promptDetectionTimer.type ] >>
                          ELSE << >>
             /\ authWaiting' = IF fires /\ promptEnabled THEN authWaiting + 1 ELSE authWaiting
             /\ pendingLine' = IF ok /\ ~(fires /\ promptEnabled) THEN << >> ELSE pendingLine
    /\ written' = << >> /\ returned' = NoValue
    /\ hist' = [ Before EXCEPT !.op = "authTimer", !.arg = pendingLine,
                               !.boxLine = IF authWaiting' > authWaiting /\ @ = << >>
                                           THEN pendingLine ELSE @ ]
    /\ UNCHANGED << toolVars, vendor, bufferVars, process, isConnected, sessionVars, registry >>

\* the input box of handleAuthPrompt resolves: cancelled (close()) or answered
\* (the response is written), then the timer callback clears the pending line
AuthPromptAnswered ==
    /\ authWaiting > 0
    /\ authWaiting' = authWaiting - 1
    /\ pendingLine' = << >>
    /\ \E cancelled \in BOOLEAN :
         IF cancelled
         THEN /\ promptDetectionTimer' = NoTimer
              /\ subSessionDetectionTimer' = FALSE
              /\ process' = Killed(process)
              /\ written' = << >>
         ELSE /\ written' = << [ data |-> << "<response>", NL >>, by |-> "auth" ] >>
              /\ UNCHANGED << promptDetectionTimer, subSessionDetectionTimer, process >>
    /\ events' = << >> /\ returned' = NoValue
    /\ hist' = [ Before EXCEPT !.op = "authAnswer", !.arg = << >>,
                               !.boxLine = << >>,
                               !.closed = @ \/ process' # process ]
    /\ UNCHANGED << toolVars, vendor, bufferVars, isConnected, isPaginating, commandQueue, autoPaginateEnabled,
                    paginationBuffer, visibleCommandLine, pendingSubSessionHost, registry >>

\* an incremental read that returns the unread output and leaves the cursor
GetRecentOutputKeepsCursor ==
    /\ LET f == filterOutputForLLM(Substring(outputBuffer, lastReadPosition), registry)
       IN  /\ returned' = f.text
           /\ registry' = f.registry
    /\ hist' = [ Before EXCEPT !.op = "read",
                               !.arg = Substring(outputBuffer, lastReadPosition) ]
    /\ written' = << >> /\ events' = << >>
    /\ UNCHANGED << toolVars, vendor, bufferVars, process, isConnected, authVars, sessionVars >>

\* getRecentOutput() without a line count: the incremental read
GetRecentOutput ==
    /\ LET f == filterOutputForLLM(Substring(outputBuffer, lastReadPosition), registry)
       IN  /\ returned' = f.text
           /\ registry' = f.registry
    /\ lastReadPosition' = Len(outputBuffer)
    /\ hist' = [ Before EXCEPT
                   !.op = "read",
                   !.arg = Substring(outputBuffer, lastReadPosition),
                   !.unread = @ \ { CharNumber(i) : i \in (lastReadPosition + 1)..Len(outputBuffer) } ]
    /\ written' = << >> /\ events' = << >>
    /\ UNCHANGED << toolVars, vendor, outputBuffer, process, isConnected, authVars, sessionVars >>

\* getRecentOutput(lines)
GetRecentOutputLines(lines) ==
    /\ LET f == filterOutputForLLM(lastLines(outputBuffer, lines), registry)
       IN  /\ returned' = f.text
           /\ registry' = f.registry
    /\ hist' = [ Before EXCEPT !.op = "readLines", !.arg = lastLines(outputBuffer, lines) ]
    /\ written' = << >> /\ events' = << >>
    /\ UNCHANGED << toolVars, vendor, bufferVars, process, isConnected, authVars, sessionVars >>

\* peekRecentOutput()
PeekRecentOutput ==
    /\ LET f == filterOutputForLLM(Substring(outputBuffer, lastReadPosition), registry)
       IN  /\ returned' = f.text
           /\ registry' = f.registry
    /\ hist' = [ Before EXCEPT !.op = "peek",
                               !.arg = Substring(outputBuffer, lastReadPosition) ]
    /\ written' = << >> /\ events' = << >>
    /\ UNCHANGED << toolVars, vendor, bufferVars, process, isConnected, authVars, sessionVars >>

\* getOutputBuffer()
GetOutputBuffer ==
    /\ LET f == filterOutputForLLM(outputBuffer, registry)
       IN  /\ returned' = f.text
           /\ registry' = f.registry
    /\ hist' = [ Before EXCEPT !.op = "readAll", !.arg = outputBuffer ]
    /\ written' = << >> /\ events' = << >>
    /\ UNCHANGED << toolVars, vendor, bufferVars, process, isConnected, authVars, sessionVars >>

\* clearOutputBuffer()
ClearOutputBuffer ==
    /\ outputBuffer' = << >>
    /\ lastReadPosition' = 0
    /\ hist' = [ Before EXCEPT !.op = "clear", !.arg = << >>, !.unread = {} ]
    /\ written' = << >> /\ events' = << >> /\ returned' = NoValue
    /\ UNCHANGED << toolVars, vendor, process, isConnected, authVars, sessionVars, registry >>

-----------------------------------------------------------------------------
(* SpecBuffer: output chunks and tool reads against the output buffer *)

\* longest output chunk, in characters
MaxChunk == 2

\* all texts over an alphabet with between lo and hi characters
TextsOver(alphabet, lo, hi) ==
    UNION { [ 1..n -> alphabet ] : n \in lo..hi }

BufferChunks == TextsOver({ "a", NL, Wide }, 1, MaxChunk)

\* line counts a tool passes to getRecentOutput(lines)
LineCounts == 0..2

BufferData == \E data \in BufferChunks : OnData(data, FALSE)

BufferReadLines == \E lines \in LineCounts : GetRecentOutputLines(lines)

NextBuffer ==
    \/ Open
    \/ BufferData
    \/ GetRecentOutput
    \/ BufferReadLines
    \/ PeekRecentOutput
    \/ ClearOutputBuffer

SpecBuffer == Init /\ [][NextBuffer]_vars

\* C1: after every operation the read cursor lies inside the buffer,
\* 0 <= lastReadPosition <= length(outputBuffer), also right after a byte-cap
\* trim and right after a line-cap trim.
C1_CursorWithinBuffer ==
    0 <= lastReadPosition /\ lastReadPosition <= Len(outputBuffer)

\* C2: trimming never makes an incremental read skip or repeat data: in every
\* state the characters the next getRecentOutput() will consume (those after
\* the cursor) are exactly the buffered characters that no earlier incremental
\* read returned.
C2_ReadsNeitherSkipNorRepeat ==
    hist.unread = { CharNumber(i) : i \in (lastReadPosition + 1)..Len(outputBuffer) }

-----------------------------------------------------------------------------
(* SpecRead: output that holds a secret, split into chunks, and tool reads *)

ReadChunks == TextsOver({ "pre-shared-key", " ", "s" }, 1, MaxChunk)

\* output characters a run of SpecRead delivers
MaxReadOutput == 4

ReadData ==
    /\ hist.total < MaxReadOutput
    /\ \E data \in ReadChunks : OnData(data, TRUE)

ReadLines == \E lines \in LineCounts : GetRecentOutputLines(lines)

NextRead ==
    \/ Open
    \/ ReadData
    \/ GetRecentOutput
    \/ ReadLines
    \/ PeekRecentOutput
    \/ GetOutputBuffer

SpecRead == Init /\ [][NextRead]_vars

\* the plaintexts the profile's secret patterns capture in a text
RECURSIVE CapturesOf(_, _)
CapturesOf(patterns, text) ==
    IF patterns = << >> THEN {}
    ELSE LET m == matchAll(text, Head(patterns))
         IN  { m[i] : i \in 1..Len(m) } \cup CapturesOf(Tail(patterns), text)

\* C3: however the output is split into chunks and interleaved with reads, no
\* string returned to the tool contains a plaintext that a secret pattern of
\* the profile captures in the raw output delivered so far.
C3_NoPlaintextReturned ==
    returned # NoValue =>
        \A p \in CapturesOf(SecretPatterns, hist.raw) : ~Includes(returned, p)

-----------------------------------------------------------------------------
(* SpecPaging: tool commands, human keystrokes and paged output *)

PagingChunks == TextsOver({ " --More-- ", "R1#" }, 1, MaxChunk)
PagingCommands == { << "c1" >>, << "c2" >> }
PagingKeys == { << "x" >>, << CR >> }

\* output characters a run of SpecPaging delivers
MaxPagingOutput == 3

\* commands and keystrokes of a run of SpecPaging
MaxPagingCommands == 3
MaxPagingKeys == 1

PagingData ==
    /\ hist.total < MaxPagingOutput
    /\ \E data \in PagingChunks : OnData(data, FALSE)

PagingSend ==
    /\ process # "none"
    /\ hist.nCommands < MaxPagingCommands
    /\ \E text \in PagingCommands, addNewLine, autoPaginate \in BOOLEAN :
         SendText(text, addNewLine, autoPaginate)

PagingDevice == \E deviceType \in DeviceTypes : SetDeviceType(deviceType)

PagingInput ==
    /\ process # "none"
    /\ hist.nInputs < MaxPagingKeys
    /\ \E data \in PagingKeys : HandleInput(data)

NextPaging ==
    \/ Open
    \/ PagingData
    \/ PagingSend
    \/ PagingInput
    \/ PagingDevice

SpecPaging == Init /\ [][NextPaging]_vars

\* C4: a continuation keystroke is written only for a banner in the output of a
\* command that sendText dispatched with autoPaginate = TRUE; a banner in the
\* output of a human-typed command, or after the tool's command completed,
\* causes no automatic keystroke.
C4_ContinuationOnlyForToolCommands ==
    \A i \in 1..Len(written) :
        written[i].by = "pagination" => hist.dispatch = "tool"

\* what the Process Channel receives when the commands of a queue are sent in order
QueuedWrites(queue, reg) ==
    [ i \in 1..Len(queue) |->
        [ data |-> restoreSecrets(reg, queue[i].text)
                     \o (IF queue[i].addNewLine THEN << NL >> ELSE << >>),
          by |-> "sendText" ] ]

\* the output since the last banner ends with the device prompt
PagedOutputEndsWithPrompt(text) ==
    LET cleaned == StripCsi(paginationBuffer \o text)
    IN  /\ \A i \in 1..Len(paginationPromptPatterns(vendor)) :
               ~EndsWith(cleaned, paginationPromptPatterns(vendor)[i])
        /\ promptPatternTest(vendor, Trim(Last(Split(cleaned, NL))))

\* C5: while isPaginating holds, sendText writes nothing and appends the command
\* to the queue; the chunk in which the device prompt reappears ends pagination,
\* and the step that ends pagination writes the queued commands in submission
\* order, each once, and leaves the queue empty, so that every later command is
\* written after them.
C5_QueueDrainedInOrder ==
    [][ /\ (isPaginating /\ hist'.op = "sendText") =>
               /\ written' = << >>
               /\ \E addNewLine \in BOOLEAN :
                      commandQueue' = Append(commandQueue,
                                             [ text |-> hist'.arg, addNewLine |-> addNewLine ])
        /\ (isPaginating /\ hist'.op = "data" /\ PagedOutputEndsWithPrompt(hist'.arg)) =>
               ~isPaginating'
        /\ (isPaginating /\ ~isPaginating') =>
               /\ written' = QueuedWrites(commandQueue, registry)
               /\ commandQueue' = << >>
        /\ ~isPaginating' => commandQueue' = << >>
      ]_vars

\* two commands queued during pagination have just been drained
C5_Witness ==
    /\ hist.op = "data"
    /\ hist.pagingBefore /\ ~isPaginating
    /\ Len(hist.queuedBefore) = 2
    /\ hist.queuedBefore[1].text # hist.queuedBefore[2].text
    /\ Len(written) = 2
    /\ commandQueue = << >>

\* the last line of the output the detector has buffered, with the chunk
LastPagedLine(text) == Trim(Last(Split(StripCsi(paginationBuffer \o text), NL)))

\* C34: when, while isPaginating holds, output arrives whose last line matches
\* the prompt pattern of the device, isPaginating becomes false and every
\* queued command is written to the Process Channel, leaving the queue empty;
\* no command stays queued while the session is not paginating.
C34_PromptDrainsQueue ==
    /\ [][ (isPaginating /\ hist'.op = "data"
              /\ promptPatternTest(vendor, LastPagedLine(hist'.arg))) =>
               /\ ~isPaginating'
               /\ commandQueue' = << >>
               /\ Len(written') = Len(commandQueue)
               /\ \A i \in 1..Len(commandQueue) :
                      /\ written'[i].by = "sendText"
                      /\ written'[i].data =
                             restoreSecrets(registry, commandQueue[i].text)
                                 \o (IF commandQueue[i].addNewLine THEN << NL >> ELSE << >>)
         ]_vars
    /\ [](~isPaginating => commandQueue = << >>)

\* the prompt of a cisco_ios device has returned during pagination and the
\* commands queued meanwhile are on the Process Channel
C34_Witness ==
    /\ hist.op = "data"
    /\ vendor = "cisco_ios"
    /\ hist.pagingBefore /\ ~isPaginating
    /\ Last(hist.arg) = PromptToken
    /\ Len(hist.queuedBefore) >= 2
    /\ Len(written) = Len(hist.queuedBefore)
    /\ commandQueue = << >>

\* the latest step has drained the queue onto the Process Channel
Drained ==
    /\ hist.op \in { "data", "setDeviceType" }
    /\ hist.queuedBefore # << >>
    /\ commandQueue = << >>
    /\ \E i \in 1..Len(written) : written[i].by = "sendText"

\* C37: every command submitted through sendText with autoPaginate = TRUE has
\* auto-pagination armed when it is written to the Process Channel, also when
\* it was queued during pagination and is written by the drain.
C37_ArmedWhenWritten ==
    /\ (hist.op = "sendText" /\ hist.auto /\ written # << >>) => autoPaginateEnabled
    /\ Drained =>
           \A i \in 1..Len(hist.autoQueuedBefore) :
               hist.autoQueuedBefore[i] => autoPaginateEnabled

\* a command that sendText writes at once is written with auto-pagination armed
C37_ArmedWhenWrittenAtOnce ==
    (hist.op = "sendText" /\ hist.auto /\ written # << >>) => autoPaginateEnabled

\* the drain writes every command with auto-pagination off
C37_DrainWritesUnarmed ==
    Drained => ~autoPaginateEnabled

-----------------------------------------------------------------------------
(* SpecAuth: output chunks, the 300 ms debounce timer and the input box *)

AuthChunks == TextsOver({ "Password:", "Passphrase", NL, CR, " " }, 1, MaxChunk)

\* output characters a run of SpecAuth delivers
MaxAuthOutput == 4

AuthData ==
    /\ hist.total < MaxAuthOutput
    /\ \E data \in AuthChunks : OnData(data, FALSE)

NextAuth ==
    \/ Open
    \/ AuthData
    \/ AuthTimerFire
    \/ AuthPromptAnswered

SpecAuth == Init /\ [][NextAuth]_vars

AuthEvents == { i \in 1..Len(events) : events[i].kind = "auth" }

\* C6: a chunk that brings a newline into the pending line, arriving while the
\* debounce timer of a password prompt is armed (before the 300 ms have
\* elapsed), raises no auth-prompt event, clears the pending line and cancels
\* the timer; an event is only ever raised by the timer, for a pending line
\* without a newline.
C6_NewlineCancelsPrompt ==
    /\ (hist.op = "data" /\ HasToken(hist.arg, NL)) =>
           /\ AuthEvents = {}
           /\ pendingLine = << >>
           /\ ~promptDetectionTimer.armed
    /\ AuthEvents # {} => (hist.op = "authTimer" /\ ~HasToken(hist.arg, NL))

\* a newline chunk has arrived while the timer of a password prompt was armed
C6_Witness ==
    /\ hist.op = "data"
    /\ hist.timerBefore = [ armed |-> TRUE, type |-> "password" ]
    /\ HasToken(hist.arg, NL)
    /\ pendingLine = << >>

\* C36: while the handler of a confirmed auth prompt waits for the user's
\* answer, further chunks without a newline raise no second auth-prompt event
\* for the same prompt.
C36_NoSecondEventWhileWaiting ==
    (hist.op = "authTimer" /\ hist.boxBefore # << >>) => events = << >>

\* a chunk with a newline does end the prompt: the timer is cancelled and the
\* line dropped, also while the input box is open
C36_NewlineEndsPromptWhileWaiting ==
    (hist.op = "data" /\ authWaiting > 0 /\ HasToken(hist.arg, NL)) =>
        /\ ~promptDetectionTimer.armed
        /\ pendingLine = << >>
        /\ hist.boxLine = << >>

\* C7: after a chunk whose last, unfinished line matches a password pattern the
\* debounce timer is armed for the password tier, and when it fires (300 ms of
\* silence) exactly one auth-prompt event is raised, carrying the trimmed
\* prompt line and the tier.
C7_SilenceRaisesOneEvent ==
    /\ (hist.op = "data"
          /\ IncludesAny(Last(Split(hist.arg, NL)), authPromptPatterns.password)) =>
           promptDetectionTimer = [ armed |-> TRUE, type |-> "password" ]
    /\ hist.op = "authTimer" =>
           events = << [ kind |-> "auth",
                         text |-> Trim(Last(Split(hist.arg, CR))),
                         type |-> hist.timerBefore.type ] >>

-----------------------------------------------------------------------------
(* SpecSub: ssh commands from the tool and the keyboard, and the device's answer *)

SubChunks ==
    TextsOver({ "Connection refused", "R1#", NL }, 1, MaxChunk)
        \cup { << "Connection refused", NL, "R1#" >> }
SubCommands == { << "ssh", " ", "h1" >>, << "ssh", " ", "h2" >>, << "x" >> }
SubKeys == { << "ssh", " ", "h1" >>, << "ssh", " ", "h2" >>, << CR >> }

\* output characters a run of SpecSub delivers
MaxSubOutput == 3

\* commands and keystroke batches of a run of SpecSub
MaxSubCommands == 2
MaxSubKeys == 2

SubData ==
    /\ hist.total + 1 < MaxSubOutput
    /\ \E data \in SubChunks : OnData(data, FALSE)

SubSend ==
    /\ process # "none"
    /\ hist.nCommands < MaxSubCommands
    /\ \E text \in SubCommands : SendText(text, TRUE, FALSE)

SubDevice == \E deviceType \in DeviceTypes : SetDeviceType(deviceType)

SubInput ==
    /\ process # "none"
    /\ hist.nInputs < MaxSubKeys
    /\ \E data \in SubKeys : HandleInput(data)

NextSub ==
    \/ Open
    \/ SubData
    \/ SubSend
    \/ SubInput
    \/ SubDevice
    \/ SubSessionTimeout

SpecSub == Init /\ [][NextSub]_vars

SubSessionEvents == { i \in 1..Len(events) : events[i].kind = "subsession" }

\* C8: a chunk that matches a failure pattern while a sub-session is pending
\* clears the pending state and emits no sub-session-entered event, also when
\* the chunk matches a success pattern as well; an event is emitted only for an
\* attempt that is still pending, so none follows for the failed attempt.
C8_FailureBeatsSuccess ==
    /\ (hist.op = "data" /\ hist.hostBefore # << >> /\ subSessionFailureTest(vendor, hist.arg)) =>
           /\ SubSessionEvents = {}
           /\ hist.attempt = "failed"
    /\ hist.attempt = "failed" =>
           /\ pendingSubSessionHost = << >>
           /\ ~subSessionDetectionTimer
    /\ SubSessionEvents # {} =>
           /\ hist.op = "data"
           /\ hist.attemptBefore = "pending"
           /\ ~subSessionFailureTest(vendor, hist.arg)
           /\ events = << [ kind |-> "subsession", host |-> hist.hostBefore ] >>

\* a chunk with a failure message and, on a later line, the prompt has arrived
\* while a sub-session was pending
C8_Witness ==
    /\ hist.op = "data"
    /\ hist.hostBefore = << "h1" >>
    /\ hist.arg = << "Connection refused", NL, "R1#" >>
    /\ subSessionSuccessTest(vendor, hist.arg)
    /\ pendingSubSessionHost = << >>

\* C14: at most one sub-session is pending at a time: while one is pending,
\* pressing Enter on, or sending through sendText, another line that matches a
\* sub-session command pattern leaves the pending host and its expiry timer as
\* they were.
C14_OnePendingSubSession ==
    (hist.op \in { "input", "sendText" } /\ hist.hostBefore # << >>) =>
        /\ pendingSubSessionHost = hist.hostBefore
        /\ subSessionDetectionTimer = hist.subTimerBefore

\* sendText has sent "ssh h2" while the attempt for h1 was pending
C14_Witness ==
    /\ hist.op = "sendText"
    /\ hist.arg = << "ssh", " ", "h2" >>
    /\ written # << >>
    /\ hist.hostBefore = << "h1" >>
    /\ hist.subTimerBefore
    /\ pendingSubSessionHost = << "h1" >>

\* Enter has been pressed on "ssh h2" while the attempt for h1 was pending
C14_WitnessEnter ==
    /\ hist.op = "input"
    /\ hist.frozenLine = << "ssh", " ", "h2" >>
    /\ FirstHost(CommandPatternHosts(vendor, hist.frozenLine)) = << "h2" >>
    /\ hist.hostBefore = << "h1" >>
    /\ pendingSubSessionHost = << "h1" >>

-----------------------------------------------------------------------------
(* SpecFilter: PasswordFilter and SecretRegistry as functions of text *)

\* longest text and largest registry of a run of SpecFilter
MaxFilterText == 4
MaxSecrets == 2

FilterTexts == TextsOver({ "pre-shared-key", " ", "$", "1" }, 1, MaxFilterText)
FilterSecrets == TextsOver({ "$", "1" }, 1, 2)

\* SecretRegistry.registerSecret(plaintext, context, sessionId)
RegisterSecret ==
    /\ Len(registry.secrets) < MaxSecrets
    /\ \E plaintext \in FilterSecrets :
         /\ registry' = registerSecret(registry, plaintext, SessionId).registry
         /\ hist' = [ hist EXCEPT !.op = "register", !.arg = plaintext ]
    /\ written' = << >> /\ events' = << >> /\ returned' = NoValue
    /\ UNCHANGED << toolVars, vendor, bufferVars, process, isConnected, authVars, sessionVars >>

\* PasswordFilter.filterOutput(text, sessionId, secretPatterns)
FilterOutput ==
    /\ hist.op \in { "new", "register" }
    /\ \E text \in FilterTexts :
         LET f == filterOutput(text, SessionId, SecretPatterns, registry)
         IN  /\ Len(f.registry.secrets) <= MaxSecrets
             /\ returned' = f.text
             /\ registry' = f.registry
             /\ hist' = [ hist EXCEPT !.op = "filter", !.arg = text,
                                      !.registryBefore = registry ]
    /\ UNCHANGED << toolVars, vendor, bufferVars, process, isConnected, authVars, sessionVars, written, events >>

\* PasswordFilter.restoreSecrets applied to what filterOutput returned
RestoreFiltered ==
    /\ hist.op = "filter"
    /\ returned' = restoreSecrets(registry, returned)
    /\ hist' = [ hist EXCEPT !.op = "restore" ]
    /\ UNCHANGED << toolVars, vendor, bufferVars, process, isConnected, authVars, sessionVars, registry,
                    written, events >>

\* PasswordFilter.filterOutput applied to what filterOutput returned
FilterAgain ==
    /\ hist.op = "filter"
    /\ LET f == filterOutput(returned, SessionId, SecretPatterns, registry)
       IN  /\ returned' = f.text
           /\ registry' = f.registry
    /\ hist' = [ hist EXCEPT !.op = "refilter", !.arg = returned,
                             !.registryBefore = registry ]
    /\ UNCHANGED << toolVars, vendor, bufferVars, process, isConnected, authVars, sessionVars, written, events >>

NextFilter ==
    \/ RegisterSecret
    \/ FilterOutput
    \/ RestoreFiltered
    \/ FilterAgain

SpecFilter == Init /\ [][NextFilter]_vars

Plaintexts(reg) == { decrypt(reg.secrets[i].encryptedValue) : i \in 1..Len(reg.secrets) }

\* C9: when every secret the patterns capture in a text was registered before
\* filterOutput began, restoreSecrets gives the text back from what
\* filterOutput returned.
C9_RoundTrip ==
    (hist.op = "restore"
       /\ CapturesOf(SecretPatterns, hist.arg) \subseteq Plaintexts(hist.registryBefore)) =>
        returned = hist.arg

\* C10: filterOutput applied to its own result returns it unchanged and
\* registers no secret.
C10_Idempotent ==
    hist.op = "refilter" => (returned = hist.arg /\ registry = hist.registryBefore)

-----------------------------------------------------------------------------
(* SpecSend: tool commands that carry placeholders of registered secrets *)

\* commands and output characters of a run of SpecSend
MaxSendCommands == 2
MaxSendOutput == 2

SendTexts ==
    { << "x" >>,
      << "<REDACTED_SECRET_", "1", ">" >>,
      << "x", "<REDACTED_SECRET_", "2", ">", "<REDACTED_SECRET_", "1", ">" >> }

SendCommand ==
    /\ process # "none"
    /\ hist.nCommands < MaxSendCommands
    /\ \E text \in SendTexts, addNewLine, autoPaginate \in BOOLEAN :
         SendText(text, addNewLine, autoPaginate)

SendData ==
    /\ hist.total < MaxSendOutput
    /\ \E data \in { << " --More-- " >>, << "R1#" >> } : OnData(data, FALSE)

NextSend ==
    \/ Open
    \/ RegisterSecret
    \/ SendCommand
    \/ SendData
    \/ PagingDevice

SpecSend == Init /\ [][NextSend]_vars

\* every occurrence of pat in s replaced by the text rep itself
RECURSIVE Substitute(_, _, _)
Substitute(s, pat, rep) ==
    LET i == IndexOf(s, pat, 1)
    IN  IF pat = << >> \/ i = 0 THEN s
        ELSE SubSeq(s, 1, i - 1) \o rep \o Substitute(SubSeq(s, i + Len(pat), Len(s)), pat, rep)

\* the text with every placeholder of a registered secret replaced by that
\* secret's plaintext
RECURSIVE WithPlaintexts(_, _, _)
WithPlaintexts(secrets, i, text) ==
    IF i > Len(secrets) THEN text
    ELSE WithPlaintexts(secrets, i + 1,
             Substitute(text, secrets[i].placeholder, decrypt(secrets[i].encryptedValue)))

SendTextWrites == SelectSeq(written, LAMBDA w : w.by = "sendText")

\* the commands the latest step handed to the Process Channel: the command of
\* a sendText that wrote, or the queue a drain emptied
CommandsWritten ==
    IF hist.op = "sendText"
    THEN { << [ text |-> hist.arg, addNewLine |-> b ] >> : b \in BOOLEAN }
    ELSE { hist.queuedBefore }

\* C11: whenever sendText causes bytes to be written, at once or when a queued
\* command is drained, the bytes are the command's text with every placeholder
\* of a registered secret replaced by that secret's plaintext, plus the newline
\* when requested.
C11_WritesPlaintextForPlaceholders ==
    SendTextWrites # << >> =>
        \E cmds \in CommandsWritten :
            SendTextWrites =
                [ i \in 1..Len(cmds) |->
                    [ data |-> WithPlaintexts(registry.secrets, 1, cmds[i].text)
                                 \o (IF cmds[i].addNewLine THEN << NL >> ELSE << >>),
                      by |-> "sendText" ] ]

\* the same with the restoration as restoreSecrets computes it
C11_WritesRestoreSecrets ==
    SendTextWrites # << >> =>
        \E cmds \in CommandsWritten : SendTextWrites = QueuedWrites(cmds, registry)

-----------------------------------------------------------------------------
(* SpecManager: the BufferManager class; outputBuffer and lastReadPosition are
   its two fields of the same names *)

\* BufferManager.MAX_BUFFER_BYTES (10 MiB in the source, compared with the
\* buffer's length), scaled down
BufferManager_MAX_BUFFER_BYTES == 5

\* BufferManager.maxScrollbackLines (the constructor enforces a floor of 100),
\* scaled down
BufferManager_maxScrollbackLines == 3

\* characters a run of SpecManager appends
MaxManagerOutput == 8

\* a trim that leaves the read cursor where it was
trimBufferCursorKept(buffer, readPos) ==
    LET targetSize == (BufferManager_MAX_BUFFER_BYTES * 8) \div 10
        cut == IF Len(buffer) > BufferManager_MAX_BUFFER_BYTES
               THEN Substring(buffer, Len(buffer) - targetSize) ELSE buffer
        lines == Split(cut, NL)
        linesToKeep == (BufferManager_maxScrollbackLines * 8) \div 10
    IN  [ outputBuffer |-> IF Len(lines) > BufferManager_maxScrollbackLines
                           THEN Join(SliceLast(lines, linesToKeep), NL) ELSE cut,
          lastReadPosition |-> readPos ]

\* BufferManager.trimBuffer: [outputBuffer, lastReadPosition]
trimBuffer(buffer, readPos) ==
    LET targetSize == (BufferManager_MAX_BUFFER_BYTES * 8) \div 10
        trimAmount == Len(buffer) - targetSize
        overBytes == Len(buffer) > BufferManager_MAX_BUFFER_BYTES
        buffer1 == IF overBytes THEN Substring(buffer, trimAmount) ELSE buffer
        readPos1 == IF overBytes THEN Max(0, readPos - trimAmount) ELSE readPos
        lines == Split(buffer1, NL)
        linesToKeep == (BufferManager_maxScrollbackLines * 8) \div 10
        newBuffer == Join(SliceLast(lines, linesToKeep), NL)
        bytesRemoved == Len(buffer1) - Len(newBuffer)
    IN  IF Len(lines) > BufferManager_maxScrollbackLines
        THEN [ outputBuffer |-> newBuffer,
               lastReadPosition |-> Max(0, readPos1 - bytesRemoved) ]
        ELSE [ outputBuffer |-> buffer1, lastReadPosition |-> readPos1 ]

managerFrame == << toolVars, vendor, process, isConnected, authVars, sessionVars, registry >>

ManagerBefore == [ hist EXCEPT !.bufferBefore = outputBuffer,
                               !.cursorBefore = lastReadPosition ]

\* BufferManager.append(data)
append(data) ==
    /\ hist.total + Len(data) <= MaxManagerOutput
    /\ LET t == trimBuffer(outputBuffer \o data, lastReadPosition)
       IN  /\ outputBuffer' = t.outputBuffer
           /\ lastReadPosition' = t.lastReadPosition
    /\ hist' = [ ManagerBefore EXCEPT !.op = "append", !.arg = data,
                                      !.total = @ + Len(data) ]
    /\ written' = << >> /\ events' = << >> /\ returned' = NoValue
    /\ UNCHANGED managerFrame

ManagerAppend == \E data \in TextsOver({ "a", NL }, 1, MaxChunk) : append(data)

\* BufferManager.readNewOutput()
ReadNewOutput ==
    /\ returned' = Substring(outputBuffer, lastReadPosition)
    /\ lastReadPosition' = Len(outputBuffer)
    /\ hist' = [ ManagerBefore EXCEPT !.op = "readNewOutput", !.arg = << >> ]
    /\ written' = << >> /\ events' = << >>
    /\ UNCHANGED << toolVars, outputBuffer, managerFrame >>

\* BufferManager.peekRecentOutput()
ManagerPeekRecentOutput ==
    /\ returned' = Substring(outputBuffer, lastReadPosition)
    /\ hist' = [ ManagerBefore EXCEPT !.op = "peekRecentOutput", !.arg = << >> ]
    /\ written' = << >> /\ events' = << >>
    /\ UNCHANGED << toolVars, bufferVars, managerFrame >>

\* BufferManager.getRecentOutput(lines); a count of 0 stands for no count
ManagerGetRecentOutput ==
    /\ \E lines \in LineCounts :
         /\ returned' = IF lines = 0 THEN outputBuffer ELSE lastLines(outputBuffer, lines)
         /\ hist' = [ ManagerBefore EXCEPT !.op = "getRecentOutput", !.arg = << >> ]
    /\ written' = << >> /\ events' = << >>
    /\ UNCHANGED << toolVars, bufferVars, managerFrame >>

\* BufferManager.clear()
ManagerClear ==
    /\ outputBuffer' = << >>
    /\ lastReadPosition' = 0
    /\ hist' = [ ManagerBefore EXCEPT !.op = "clear", !.arg = << >> ]
    /\ written' = << >> /\ events' = << >> /\ returned' = NoValue
    /\ UNCHANGED managerFrame

NextManager ==
    \/ ManagerAppend
    \/ ReadNewOutput
    \/ ManagerPeekRecentOutput
    \/ ManagerGetRecentOutput
    \/ ManagerClear

SpecManager == Init /\ [][NextManager]_vars

\* the characters the latest append cut from the front
ManagerRemoved == Len(hist.bufferBefore) + Len(hist.arg) - Len(outputBuffer)

\* C13: the trims of BufferManager.append remove a prefix of the buffer and
\* reduce lastReadPosition by exactly the number of characters removed, clamped
\* at 0; after every operation 0 <= lastReadPosition <= length of the buffer.
C13_ManagerCursorFollowsTrim ==
    /\ hist.op = "append" =>
           /\ ManagerRemoved >= 0
           /\ outputBuffer = Substring(hist.bufferBefore \o hist.arg, ManagerRemoved)
           /\ lastReadPosition = Max(0, hist.cursorBefore - ManagerRemoved)
    /\ 0 <= lastReadPosition
    /\ lastReadPosition <= Len(outputBuffer)

\* an append has cut characters from the front, some of them unread, while the
\* read cursor was inside the buffer
C13_WitnessClamped ==
    /\ hist.op = "append"
    /\ ManagerRemoved > 0
    /\ hist.cursorBefore > 0
    /\ hist.cursorBefore < ManagerRemoved
    /\ lastReadPosition = 0

\* an append has cut only characters that were read, and the cursor moved back
C13_Witness ==
    /\ hist.op = "append"
    /\ ManagerRemoved > 0
    /\ hist.cursorBefore > ManagerRemoved
    /\ lastReadPosition > 0

\* the lines of a buffer
LinesOf(buffer) == Split(buffer, NL)

\* C31: with N the scrollback cap, the buffer holds at most N lines after every
\* append, and when an append makes the line count exceed N exactly the
\* trailing N lines are kept.
C31_LineCapKeepsTrailingN ==
    hist.op = "append" =>
        LET lines == LinesOf(hist.bufferBefore \o hist.arg)
        IN  /\ Len(LinesOf(outputBuffer)) <= BufferManager_maxScrollbackLines
            /\ Len(lines) > BufferManager_maxScrollbackLines =>
                   outputBuffer = Join(SliceLast(lines, BufferManager_maxScrollbackLines), NL)

\* the cap itself holds after every operation of BufferManager
C31_AtMostNLines ==
    Len(LinesOf(outputBuffer)) <= BufferManager_maxScrollbackLines

\* the session engine's trimOutputBuffer keeps the trailing N lines of what the
\* byte cap left
C31_EngineKeepsTrailingN ==
    [][ hist'.op = "data" =>
            LET lines == LinesOf(ByteTrim(outputBuffer \o hist'.arg))
            IN  /\ Len(LinesOf(outputBuffer')) <= MaxScrollbackLines
                /\ Len(lines) > MaxScrollbackLines =>
                       outputBuffer' = Join(SliceLast(lines, MaxScrollbackLines), NL)
      ]_vars

-----------------------------------------------------------------------------
(* SpecHandler: the detector of the PaginationHandler class; paginationBuffer,
   isPaginating, commandQueue and autoPaginateEnabled are its four fields of
   the same names, and vendor is the profile handed to the latest
   detectAndHandlePagination *)

\* the length the trailing buffer is cut back to (500 in the source), scaled down
PaginationBufferLimit == 3

\* output characters of a run of SpecHandler
MaxHandlerOutput == 4

HandlerChunks == TextsOver({ " --More-- ", "R1#", "a" }, 1, MaxChunk)

\* the devicePromptPattern argument: undefined ("none"), or the prompt
\* pattern of a profile
DevicePromptPatterns == { "none" } \cup DeviceTypes

\* devicePromptPattern && devicePromptPattern.test(buffer): the patterns end
\* in \s*$ and are tested on the whole buffer
devicePromptTest(devicePromptPattern, buffer) ==
    /\ devicePromptPattern # "none"
    /\ promptPatternTest(devicePromptPattern, TrimEnd(buffer))

\* detectAndHandlePagination(text, vendor, devicePromptPattern) on the fields
\* H: the fields afterwards and the value returned
detectAndHandlePagination(H, text, v, devicePromptPattern) ==
    IF ~H.autoPaginateEnabled THEN [ H EXCEPT !.result = FALSE ]
    ELSE LET buffer == H.paginationBuffer \o text
         IN  IF devicePromptTest(devicePromptPattern, buffer)
             THEN [ H EXCEPT !.isPaginating = FALSE, !.paginationBuffer = << >>,
                             !.result = FALSE ]
             ELSE IF \E i \in 1..Len(paginationPromptPatterns(v)) :
                         Includes(buffer, paginationPromptPatterns(v)[i])
             THEN [ H EXCEPT !.isPaginating = TRUE, !.paginationBuffer = buffer,
                             !.result = TRUE ]
             ELSE [ H EXCEPT !.paginationBuffer =
                                 IF Len(buffer) > PaginationBufferLimit
                                 THEN LastChars(buffer, PaginationBufferLimit)
                                 ELSE buffer,
                             !.result = FALSE ]

handlerFrame == << toolVars, bufferVars, process, isConnected, authVars, visibleCommandLine,
                   pendingSubSessionHost, subSessionDetectionTimer, registry >>

HandlerBefore == [ hist EXCEPT !.bufferBefore = paginationBuffer,
                               !.pagingBefore = isPaginating,
                               !.queuedBefore = commandQueue ]

BooleanValue(b) == IF b THEN << "true" >> ELSE << "false" >>

enableAutoPagination ==
    /\ autoPaginateEnabled' = TRUE
    /\ hist' = [ HandlerBefore EXCEPT !.op = "enable", !.arg = << >> ]
    /\ written' = << >> /\ events' = << >> /\ returned' = NoValue
    /\ UNCHANGED << toolVars, vendor, paginationBuffer, isPaginating, commandQueue, handlerFrame >>

DetectAndHandlePagination ==
    /\ hist.total < MaxHandlerOutput
    /\ \E text \in HandlerChunks, v \in DeviceTypes, devicePromptPattern \in DevicePromptPatterns :
         LET H == detectAndHandlePagination(
                      [ paginationBuffer |-> paginationBuffer,
                        isPaginating |-> isPaginating,
                        autoPaginateEnabled |-> autoPaginateEnabled,
                        result |-> FALSE ],
                      text, v, devicePromptPattern)
         IN  /\ paginationBuffer' = H.paginationBuffer
             /\ isPaginating' = H.isPaginating
             /\ returned' = BooleanValue(H.result)
             /\ vendor' = v
             /\ hist' = [ HandlerBefore EXCEPT !.op = "detect", !.arg = text,
                                               !.pattern = devicePromptPattern,
                                               !.total = @ + Len(text) ]
    /\ written' = << >> /\ events' = << >>
    /\ UNCHANGED << toolVars, commandQueue, autoPaginateEnabled, handlerFrame >>

\* PaginationHandler.reset()
reset ==
    /\ paginationBuffer' = << >>
    /\ isPaginating' = FALSE
    /\ autoPaginateEnabled' = FALSE
    /\ commandQueue' = << >>
    /\ hist' = [ HandlerBefore EXCEPT !.op = "reset", !.arg = << >> ]
    /\ written' = << >> /\ events' = << >> /\ returned' = NoValue
    /\ UNCHANGED << toolVars, vendor, handlerFrame >>

NextHandler ==
    \/ enableAutoPagination
    \/ DetectAndHandlePagination
    \/ reset

SpecHandler == Init /\ [][NextHandler]_vars

\* the accumulated text ends in one of the profile's pagination literals
EndsInPaginationLiteral(v, buffer) ==
    \E i \in 1..Len(paginationPromptPatterns(v)) :
        EndsWith(buffer, paginationPromptPatterns(v)[i])

\* C15: with auto-pagination armed, a chunk that makes the accumulated text end
\* in one of the vendor's pagination literals returns true, sets isPaginating
\* and clears the trailing buffer; a chunk that matches the device's prompt
\* pattern, fed while paginating, returns false and resets isPaginating.
C15_BannerThenPrompt ==
    /\ (hist.op = "detect" /\ autoPaginateEnabled
          /\ EndsInPaginationLiteral(vendor, hist.bufferBefore \o hist.arg)) =>
           /\ returned = BooleanValue(TRUE)
           /\ isPaginating
           /\ paginationBuffer = << >>
    /\ (hist.op = "detect" /\ autoPaginateEnabled /\ hist.pagingBefore
          /\ devicePromptTest(hist.pattern, hist.arg)) =>
           /\ returned = BooleanValue(FALSE)
           /\ ~isPaginating

\* C16: for each pagination banner in the output exactly one continuation is
\* requested: once a banner has been detected (isPaginating is set), a chunk
\* that brings no new banner requests no further continuation.
C16_OneContinuationPerBanner ==
    (hist.op = "detect" /\ hist.pagingBefore /\ returned = BooleanValue(TRUE)) =>
        \E i \in 1..Len(paginationPromptPatterns(vendor)) :
            Includes(hist.arg, paginationPromptPatterns(vendor)[i])

\* the same for the session engine, in SpecPaging: the continuation keystroke
\* is written once, by the chunk that brings the banner
C16_EngineOneKeystrokePerBanner ==
    \A i \in 1..Len(written) :
        written[i].by = "pagination" =>
            /\ hist.op = "data"
            /\ EndsInPaginationLiteral(vendor, StripCsi(hist.arg))
            /\ \A j \in 1..Len(written) : written[j].by = "pagination" => j = i

\* C30: after every observed output chunk, whatever the pagination state, the
\* detector's trailing buffer holds at most the limit of characters (500 in
\* the source).
C30_TrailingBufferBounded ==
    Len(paginationBuffer) <= PaginationBufferLimit

\* the cap does hold while no banner has been seen
C30_BoundedWhileNoBanner ==
    (hist.op = "detect" /\ ~isPaginating /\ returned = BooleanValue(FALSE)) =>
        Len(paginationBuffer) <= PaginationBufferLimit

-----------------------------------------------------------------------------
(* SpecTools: the MCP tools that act on a session, behind the ApprovalGate *)

\* tool calls of a run of SpecTools, and the output characters it delivers
MaxToolCalls == 2
MaxToolsOutput == 2

ToolCommands == { << << "c1" >> >>, << << "c1" >>, << "c2" >> >> }

\* what the user may type over the content of a dialog; "none" leaves it
ModifiedContents == { "none", << "c2" >> }

\* the note read_output puts before the output while the device type is not set
Nudge == << "Note: device type not set" >>

\* ApprovalGate.setStrictMode(enabled)
SetStrictMode ==
    /\ \E enabled \in BOOLEAN : strictModeEnabled' = enabled
    /\ hist' = [ Before EXCEPT !.op = "strictMode", !.arg = << >> ]
    /\ written' = << >> /\ events' = << >> /\ returned' = NoValue
    /\ UNCHANGED << activeSession, dialogs, clients, vendor, bufferVars, process, isConnected, authVars,
                    sessionVars, registry >>

\* the loop of toolSendToTerminal over approvedText.split('\n'): every line
\* that is not blank goes to sendText with autoPaginate = true
RECURSIVE sendApprovedCommands(_, _, _, _, _)
sendApprovedCommands(S, approvedCommands, addNewLine, proc, reg) ==
    IF approvedCommands = << >> THEN S
    ELSE sendApprovedCommands(
             IF Trim(Head(approvedCommands)) # << >>
             THEN sendText(S, Head(approvedCommands), addNewLine, TRUE, proc, reg)
             ELSE S,
             Tail(approvedCommands), addNewLine, proc, reg)

\* toolSendToTerminal up to the answer of approveCommand: in strict mode the
\* call waits for the dialog, otherwise the commands are sent at once
ToolSendToTerminal ==
    /\ process # "none"
    /\ hist.nCommands < MaxToolCalls
    /\ \E commands \in ToolCommands, addNewLine \in BOOLEAN :
         LET commandsText == Join(commands, NL)
         IN  /\ IF strictModeEnabled
                THEN /\ dialogs' = Append(dialogs, [ type |-> "command",
                                                     content |-> commandsText,
                                                     addNewLine |-> addNewLine ])
                     /\ written' = << >>
                     /\ UNCHANGED sessionVars
                ELSE /\ Install(sendApprovedCommands(Session, Split(commandsText, NL),
                                                     addNewLine, process, registry))
                     /\ UNCHANGED dialogs
             /\ hist' = [ Before EXCEPT !.op = "toolSend", !.arg = commandsText,
                                        !.nCommands = @ + 1 ]
    /\ events' = << >> /\ returned' = NoValue
    /\ UNCHANGED << activeSession, strictModeEnabled, clients, vendor, bufferVars, process, isConnected,
                    authVars, registry >>

\* toolAutoPaginate: an error for a profile without pagination patterns,
\* otherwise a space sent with autoPaginate = true
ToolAutoPaginate ==
    /\ process # "none"
    /\ hist.nCommands < MaxToolCalls
    /\ IF paginationPromptPatterns(vendor) = << >>
       THEN /\ events' = << [ kind |-> "error", code |-> -32602 ] >>
            /\ written' = << >>
            /\ UNCHANGED sessionVars
       ELSE /\ Install(sendText(Session, << " " >>, FALSE, TRUE, process, registry))
            /\ events' = << >>
    /\ hist' = [ Before EXCEPT !.op = "toolAutoPaginate", !.arg = << " " >>,
                               !.nCommands = @ + 1 ]
    /\ returned' = NoValue
    /\ UNCHANGED << toolVars, vendor, bufferVars, process, isConnected, authVars, registry >>

\* toolReadOutput up to the answer of approveOutput; lines = 0 stands for no
\* line count
ToolReadOutput ==
    /\ process # "none"
    /\ hist.nCommands < MaxToolCalls
    /\ \E lines \in LineCounts :
         LET unread == IF lines = 0 THEN Substring(outputBuffer, lastReadPosition)
                       ELSE lastLines(outputBuffer, lines)
             f == filterOutputForLLM(unread, registry)
             contentToApprove ==
                 (IF vendor = "generic" THEN Nudge ELSE << >>)
                   \o (IF f.text = << >> THEN << "(no new output)" >> ELSE f.text)
         IN  /\ lastReadPosition' = IF lines = 0 THEN Len(outputBuffer) ELSE lastReadPosition
             /\ registry' = f.registry
             /\ IF strictModeEnabled
                THEN /\ dialogs' = Append(dialogs, [ type |-> "output",
                                                     content |-> contentToApprove,
                                                     addNewLine |-> FALSE ])
                     /\ returned' = NoValue
                ELSE /\ returned' = contentToApprove
                     /\ UNCHANGED dialogs
             /\ hist' = [ Before EXCEPT !.op = "toolRead", !.arg = unread,
                                        !.cursorBefore = lastReadPosition,
                                        !.incremental = (lines = 0),
                                        !.nCommands = @ + 1 ]
    /\ written' = << >> /\ events' = << >>
    /\ UNCHANGED << activeSession, strictModeEnabled, clients, vendor, outputBuffer, process, isConnected,
                    authVars, sessionVars >>

\* the user answers an approval dialog and the tool call that awaited it goes
\* on: approveCommand / approveOutput return null for a rejection, else the
\* edited or the original content
DialogAnswered ==
    /\ \E i \in 1..Len(dialogs), approved \in BOOLEAN, modifiedContent \in ModifiedContents :
         LET request == dialogs[i]
             content == IF modifiedContent = "none" THEN request.content
                        ELSE modifiedContent
         IN  /\ dialogs' = SubSeq(dialogs, 1, i - 1) \o SubSeq(dialogs, i + 1, Len(dialogs))
             /\ IF approved /\ request.type = "command"
                THEN Install(sendApprovedCommands(Session, Split(content, NL),
                                                  request.addNewLine, process, registry))
                ELSE written' = << >> /\ UNCHANGED sessionVars
             /\ returned' = IF approved /\ request.type = "output" THEN content ELSE NoValue
             /\ events' = IF approved THEN << >>
                          ELSE << [ kind |-> "error", code |-> -32603 ] >>
             /\ hist' = [ Before EXCEPT !.op = "dialog", !.arg = request.content,
                                        !.approved = approved ]
    /\ UNCHANGED << activeSession, strictModeEnabled, clients, vendor, bufferVars, process, isConnected,
                    authVars, registry >>

ToolsData ==
    /\ hist.total < MaxToolsOutput
    /\ \E data \in { << "a" >>, << " --More-- " >> } : OnData(data, FALSE)

NextTools ==
    \/ Open
    \/ PagingDevice
    \/ ToolsData
    \/ SetStrictMode
    \/ ToolSendToTerminal
    \/ ToolAutoPaginate
    \/ ToolReadOutput
    \/ DialogAnswered

SpecTools == Init /\ [][NextTools]_vars

\* the step wrote to the Process Channel for a tool, or returned output to it
ToolActed ==
    \/ \E i \in 1..Len(written) : written[i].by = "sendText"
    \/ returned # NoValue

\* C17: with Strict Mode enabled, what a tool call does on a session, writing to
\* the Process Channel (send_to_terminal, auto_paginate) or returning terminal
\* output (read_output), happens only after the user approved the request in
\* the dialog; a rejected request writes nothing and returns no output.
C17_StrictModeGatesToolActions ==
    /\ (hist.op \in { "toolSend", "toolAutoPaginate", "toolRead" } /\ strictModeEnabled) =>
           ~ToolActed
    /\ (hist.op = "dialog" /\ ~hist.approved) => ~ToolActed

\* the same without auto_paginate
C17_StrictModeGatesSendAndRead ==
    /\ (hist.op \in { "toolSend", "toolRead" } /\ strictModeEnabled) => ~ToolActed
    /\ (hist.op = "dialog" /\ ~hist.approved) => ~ToolActed

\* the user rejects, as the next step, the dialog that the incremental
\* read_output of the latest step has put on screen
RejectsLatestRead ==
    /\ hist.op = "toolRead" /\ hist.incremental /\ hist.arg # << >>
    /\ strictModeEnabled
    /\ hist'.op = "dialog" /\ ~hist'.approved
    /\ dialogs' = SubSeq(dialogs, 1, Len(dialogs) - 1)

\* C38: when the user rejects a read_output request in Strict Mode the read
\* cursor is where it was before the request, so the withheld output is what
\* the next incremental read returns as unread.
C38_RejectedReadKeepsCursor ==
    [][ RejectsLatestRead =>
            /\ lastReadPosition' = hist.cursorBefore
            /\ Substring(outputBuffer', lastReadPosition') = hist.arg
      ]_vars

\* the read cursor is moved to the end of the buffer before the user is asked
C38_ReadConsumesBeforeApproval ==
    (hist.op = "toolRead" /\ hist.incremental) => lastReadPosition = Len(outputBuffer)

\* after the rejection of the latest read nothing is left unread
C38_RejectedOutputIsConsumed ==
    [][ RejectsLatestRead =>
            /\ returned' = NoValue
            /\ Substring(outputBuffer', lastReadPosition') = << >>
      ]_vars

-----------------------------------------------------------------------------
(* SpecIpc: the IPC server in front of the MCP server *)

\* the limits of ipcServer.ts (5 clients, 20 requests a window), scaled
MAX_CLIENTS == 2
RATE_LIMIT_MAX_REQUESTS == 2

\* requests of a run of SpecIpc
MaxRequests == 4

\* IPCServer.authToken, and a token a client may guess
AuthToken == "authToken"
Tokens == { AuthToken, "wrongToken" }

\* crypto.createHmac('sha256', key).update(payload).digest('hex'): equal
\* digests for equal key and payload only
hmac(key, payload) == << "hmac", key, payload >>

Methods == { "tools/call", "tools/list" }
Params == { "p1", "p2" }

\* JSON.stringify({ method, params without _signature })
payloadOf(method, params) == << method, params >>

AuthenticateRequests ==
    { [ method |-> "vibetty/authenticate", params |-> "none", token |-> t,
        signature |-> sig, _signature |-> << >> ] :
        t \in Tokens \cup { "none" },
        sig \in { << >> } \cup { hmac(k, k2) : k \in Tokens, k2 \in Tokens } }

ToolRequests ==
    { [ method |-> m, params |-> p, token |-> "none", signature |-> << >>,
        _signature |-> sig ] :
        m \in Methods, p \in Params,
        sig \in { << >> } \cup { hmac(k, payloadOf(m2, p2)) :
                                   k \in Tokens, m2 \in Methods, p2 \in Params } }

Requests == AuthenticateRequests \cup ToolRequests

ipcEvent(kind, code) == [ kind |-> kind, code |-> code ]

\* a verifySignature that only asks for a signature made with some key
verifySignatureAnyKey(request) ==
    /\ request._signature # << >>
    /\ \E k \in Tokens :
         request._signature = hmac(k, payloadOf(request.method, request.params))

verifySignature(request) ==
    /\ request._signature # << >>
    /\ request._signature = hmac(AuthToken, payloadOf(request.method, request.params))

\* handleAuthentication: the ClientState afterwards and the response written
handleAuthentication(clientState, request) ==
    IF request.token # AuthToken
    THEN [ state |-> clientState, response |-> ipcEvent("error", -32003) ]
    ELSE IF request.signature # hmac(AuthToken, request.token)
    THEN [ state |-> clientState, response |-> ipcEvent("error", -32004) ]
    ELSE [ state |-> [ clientState EXCEPT !.authenticated = TRUE ],
           response |-> ipcEvent("result", 0) ]

\* checkRateLimit; windowExpired stands for now - windowStart >= RATE_LIMIT_WINDOW
checkRateLimit(clientState, windowExpired) ==
    LET requestCount == (IF windowExpired THEN 0 ELSE clientState.requestCount) + 1
    IN  [ state |-> [ clientState EXCEPT !.requestCount = requestCount ],
          allowed |-> requestCount <= RATE_LIMIT_MAX_REQUESTS ]

\* handleRequest after JSON.parse
handleRequest(clientState, request) ==
    IF request.method = "vibetty/authenticate"
    THEN handleAuthentication(clientState, request)
    ELSE IF ~clientState.authenticated
    THEN [ state |-> clientState, response |-> ipcEvent("error", -32001) ]
    ELSE IF ~verifySignature(request)
    THEN [ state |-> clientState, response |-> ipcEvent("error", -32002) ]
    ELSE [ state |-> clientState, response |-> ipcEvent("mcp", 0) ]

ipcFrame ==
    /\ written' = << >> /\ returned' = NoValue
    /\ UNCHANGED << activeSession, strictModeEnabled, dialogs, vendor, bufferVars, process, isConnected,
                    authVars, sessionVars, registry >>

\* handleConnection: refused over MAX_CLIENTS and from a remote address
HandleConnection ==
    /\ \E c \in Connections, localhost \in BOOLEAN :
         /\ ~clients[c].open
         /\ IF Cardinality({ d \in Connections : clients[d].open }) >= MAX_CLIENTS
               \/ ~localhost
            THEN /\ events' = << ipcEvent("destroy", 0) >>
                 /\ UNCHANGED clients
            ELSE /\ clients' = [ clients EXCEPT ![c] =
                                   [ open |-> TRUE, requestCount |-> 0,
                                     authenticated |-> FALSE ] ]
                 /\ events' = << >>
         /\ hist' = [ Before EXCEPT !.op = "connection", !.arg = << >>, !.conn = c,
                                    !.request = NoRequest, !.authBefore = FALSE ]
    /\ ipcFrame

\* the 'data' handler for one line of a socket: the rate limit, JSON.parse,
\* then handleRequest; a line that does not parse is answered -32700
SocketData ==
    /\ hist.nCommands < MaxRequests
    /\ \E c \in Connections, windowExpired \in BOOLEAN, parses \in BOOLEAN,
          request \in Requests :
         LET limited == checkRateLimit(clients[c], windowExpired)
             handled == handleRequest(limited.state, request)
         IN  /\ clients[c].open
             /\ parses \/ request = CHOOSE r \in Requests : TRUE
             /\ IF ~limited.allowed
                THEN /\ clients' = [ clients EXCEPT ![c] = limited.state ]
                     /\ events' = << ipcEvent("error", -32000) >>
                ELSE IF ~parses
                THEN /\ clients' = [ clients EXCEPT ![c] = limited.state ]
                     /\ events' = << ipcEvent("error", -32700) >>
                ELSE /\ clients' = [ clients EXCEPT ![c] = handled.state ]
                     /\ events' = << handled.response >>
             /\ hist' = [ Before EXCEPT !.op = IF parses THEN "request" ELSE "badLine",
                                        !.arg = << >>, !.conn = c,
                                        !.request = IF parses THEN request ELSE NoRequest,
                                        !.authBefore = clients[c].authenticated,
                                        !.nCommands = @ + 1 ]
    /\ ipcFrame

\* the 'close' and 'error' handlers of a socket
SocketClose ==
    /\ \E c \in Connections :
         /\ clients[c].open
         /\ clients' = [ clients EXCEPT ![c] = NoClientState ]
         /\ hist' = [ Before EXCEPT !.op = "socketClose", !.arg = << >>, !.conn = c,
                                    !.request = NoRequest, !.authBefore = FALSE ]
    /\ events' = << >>
    /\ ipcFrame

NextIpc ==
    \/ HandleConnection
    \/ SocketData
    \/ SocketClose

SpecIpc == Init /\ [][NextIpc]_vars

\* the latest step handed its request to MCPServer.handleRequest
ReachedMcp == \E i \in 1..Len(events) : events[i].kind = "mcp"

\* a request that authenticates: the token, signed with the token as key
ValidAuthenticate(request) ==
    /\ request.method = "vibetty/authenticate"
    /\ request.token = AuthToken
    /\ request.signature = hmac(AuthToken, AuthToken)

C18_WitnessRefused ==
    /\ hist.op = "request"
    /\ ~hist.authBefore
    /\ hist.request.method # "vibetty/authenticate"
    /\ hist.request._signature
         = hmac(AuthToken, payloadOf(hist.request.method, hist.request.params))
    /\ events = << ipcEvent("error", -32001) >>

-----------------------------------------------------------------------------
(* SpecLife: a session from open() over the exit of its process to close() *)

\* output characters and commands of a run of SpecLife
MaxLifeOutput == 2
MaxLifeCommands == 1

LifeChunks == { << "a" >>, << "Password:" >>, << NL >> }

LifeData ==
    /\ hist.total < MaxLifeOutput
    /\ \E data \in LifeChunks : OnData(data, FALSE)

LifeSend ==
    /\ process # "none"
    /\ hist.nCommands < MaxLifeCommands
    /\ SendText(<< "ssh", " ", "h1" >>, TRUE, FALSE)

NextLife ==
    \/ Open
    \/ LifeData
    \/ LifeSend
    \/ GetRecentOutput
    \/ AuthTimerFire
    \/ AuthPromptAnswered
    \/ SubSessionTimeout
    \/ OnExit
    \/ Close

SpecLife == Init /\ [][NextLife]_vars

\* C19: once the process has exited, isConnected() is false in every later
\* state and the process stays exited (nothing respawns it), and the exit
\* itself leaves the output buffer and the read cursor as they were, so a read
\* after the exit still returns the output that came before it.
C19_ExitIsTerminal ==
    /\ [](hist.exited => (~isConnected /\ process = "exited"))
    /\ [][ /\ hist.exited => hist'.exited
           /\ hist'.op = "exit" =>
                  /\ outputBuffer' = outputBuffer
                  /\ lastReadPosition' = lastReadPosition
           /\ (hist.exited /\ hist'.op = "read") =>
                  returned' = filterOutputForLLM(
                                  Substring(outputBuffer, lastReadPosition), registry).text
         ]_vars

\* output that arrived before the exit is read after it, with close() called
\* in between
C19_Witness ==
    /\ hist.exited
    /\ hist.closed
    /\ ~isConnected
    /\ hist.op = "read"
    /\ returned # << >>
    /\ hist.arg = outputBuffer

\* C20: on a session that has been closed neither the 300 ms debounce timer
\* nor the 5 s sub-session timer is pending, no timer callback runs and no
\* auth-prompt event is raised.
C20_NoTimerAfterClose ==
    hist.closed =>
        /\ ~promptDetectionTimer.armed
        /\ ~subSessionDetectionTimer
        /\ hist.op \notin { "authTimer", "subSessionTimeout" }
        /\ AuthEvents = {}

\* close() itself leaves both timers cleared
C20_CloseClearsTimers ==
    hist.op = "close" => (~promptDetectionTimer.armed /\ ~subSessionDetectionTimer)

-----------------------------------------------------------------------------
(* SpecFault: a stored secret whose ciphertext no longer decrypts *)

\* output characters of a run of SpecFault
MaxFaultOutput == 2

FaultTexts == { << "x" >>, Placeholder(1), Placeholder(2) }

\* decipher.final() throws for this entry
decryptThrows(entry) == entry.encryptedValue.cipher # "aes-256-cbc"

\* restoreSecrets and redactSecrets decrypt every entry of the registry
SomeDecryptThrows(reg) == \E i \in 1..Len(reg.secrets) : decryptThrows(reg.secrets[i])

ThrowEvent == [ kind |-> "throw", text |-> << >>, type |-> "none" ]

\* the fault itself: the ciphertext of an entry stops decrypting under the
\* registry's key (bad padding in decipher.final), or decrypts to other bytes
DecryptionFails ==
    /\ \E i \in 1..Len(registry.secrets), garbage \in BOOLEAN :
         /\ ~decryptThrows(registry.secrets[i])
         /\ registry' = [ registry EXCEPT !.secrets[i].encryptedValue =
                            IF garbage THEN [ @ EXCEPT !.data = << "?" >> ]
                            ELSE [ @ EXCEPT !.cipher = "undecryptable" ] ]
         /\ hist' = [ Before EXCEPT !.op = "decryptFault", !.arg = registry.secrets[i].placeholder ]
    /\ written' = << >> /\ events' = << >> /\ returned' = NoValue
    /\ UNCHANGED << toolVars, vendor, bufferVars, process, isConnected, authVars, sessionVars >>

FaultData ==
    /\ hist.total < MaxFaultOutput
    /\ OnData(<< "a" >>, FALSE)

\* sendText(text, true, false) where decrypt may throw out of restoreSecrets
FaultSendText ==
    /\ process # "none"
    /\ \E text \in FaultTexts :
         IF SomeDecryptThrows(registry)
         THEN /\ hist.nCommands < MaxCommands
              /\ events' = << ThrowEvent >>
              /\ written' = << >> /\ returned' = NoValue
              /\ hist' = [ Before EXCEPT !.op = "sendText", !.arg = text,
                                         !.registryBefore = registry,
                                         !.nCommands = @ + 1 ]
              /\ UNCHANGED << toolVars, vendor, bufferVars, process, isConnected, authVars,
                              sessionVars, registry >>
         ELSE SendText(text, TRUE, FALSE)

\* getRecentOutput() where decrypt may throw out of filterOutput: the cursor
\* has been moved before the filter runs
FaultRead ==
    IF SomeDecryptThrows(registry)
    THEN /\ lastReadPosition' = Len(outputBuffer)
         /\ events' = << ThrowEvent >>
         /\ written' = << >> /\ returned' = NoValue
         /\ hist' = [ Before EXCEPT !.op = "read",
                                    !.arg = Substring(outputBuffer, lastReadPosition),
                                    !.registryBefore = registry ]
         /\ UNCHANGED << toolVars, vendor, outputBuffer, process, isConnected, authVars,
                         sessionVars, registry >>
    ELSE GetRecentOutput

NextFault ==
    \/ Open
    \/ RegisterSecret
    \/ DecryptionFails
    \/ FaultData
    \/ FaultSendText
    \/ FaultRead

SpecFault == Init /\ [][NextFault]_vars

Threw == \E i \in 1..Len(events) : events[i].kind = "throw"

\* the placeholders of the entries that do not decrypt
UnrestorablePlaceholders(reg) ==
    { reg.secrets[i].placeholder : i \in { j \in 1..Len(reg.secrets) : decryptThrows(reg.secrets[j]) } }

C21_FailureKeepsRegistry ==
    (hist.op \in { "sendText", "read" } /\ Threw) =>
        (registry = hist.registryBefore /\ written = << >>)

-----------------------------------------------------------------------------
(* SpecRegistry: the one SecretRegistry behind the filters of two sessions *)

\* the largest secretCounter of a run of SpecRegistry
MaxRegistryCounter == 3

\* options.sessionId of the two sessions
SessionIds == { "A", "B" }

RegistryPlaintexts == { << "s" >>, << "t" >> }
RegistryTexts ==
    { << "s" >>, << "pre-shared-key", " ", "s" >>, << "pre-shared-key", " ", "t" >> }

registryFrame ==
    /\ written' = << >> /\ events' = << >>
    /\ UNCHANGED << toolVars, vendor, bufferVars, process, isConnected, authVars, sessionVars >>

\* the bindings of placeholder to plaintext the entries of a registry hold
Bindings(reg) ==
    { [ placeholder |-> reg.secrets[i].placeholder,
        plaintext |-> decrypt(reg.secrets[i].encryptedValue) ] : i \in 1..Len(reg.secrets) }

\* SecretRegistry.registerSecret(plaintext, context, sessionId)
RegistryRegister ==
    /\ registry.secretCounter < MaxRegistryCounter
    /\ \E plaintext \in RegistryPlaintexts, sessionId \in SessionIds :
         LET r == registerSecret(registry, plaintext, sessionId)
         IN  /\ registry' = r.registry
             /\ returned' = r.placeholder
             /\ hist' = [ hist EXCEPT !.op = "register", !.arg = plaintext,
                                      !.sessionId = sessionId,
                                      !.registryBefore = registry,
                                      !.issued = @ \cup Bindings(r.registry) ]
    /\ registryFrame

\* PasswordFilter.clearSession(sessionId)
RegistryClear ==
    /\ \E sessionId \in SessionIds :
         /\ registry' = clearSession(registry, sessionId)
         /\ hist' = [ hist EXCEPT !.op = "clearSession", !.arg = << >>,
                                  !.sessionId = sessionId,
                                  !.registryBefore = registry ]
    /\ returned' = NoValue
    /\ registryFrame

\* the placeholders of the registry that occur in a text
PlaceholdersIn(reg, text) ==
    { reg.secrets[i].placeholder :
        i \in { j \in 1..Len(reg.secrets) : Includes(text, reg.secrets[j].placeholder) } }

\* PasswordFilter.filterOutput(text, options) for the output of a session
RegistryFilter ==
    /\ \E text \in RegistryTexts, sessionId \in SessionIds :
         LET f == filterOutput(text, sessionId, SecretPatterns, registry)
         IN  /\ f.registry.secretCounter <= MaxRegistryCounter
             /\ registry' = f.registry
             /\ returned' = f.text
             /\ hist' = [ hist EXCEPT !.op = "filter", !.arg = text,
                                      !.sessionId = sessionId,
                                      !.registryBefore = registry,
                                      !.issued = @ \cup Bindings(f.registry),
                                      !.seen = IF sessionId = "B"
                                               THEN @ \cup PlaceholdersIn(f.registry, f.text)
                                               ELSE @ ]
    /\ registryFrame

\* PasswordFilter.restoreSecrets(text) on a placeholder a session was given
RegistryRestore ==
    /\ \E n \in 1..MaxRegistryCounter, sessionId \in SessionIds :
         /\ n <= registry.secretCounter
         /\ returned' = restoreSecrets(registry, Placeholder(n))
         /\ hist' = [ hist EXCEPT !.op = "restore", !.arg = Placeholder(n),
                                  !.sessionId = sessionId,
                                  !.registryBefore = registry ]
    /\ UNCHANGED registry
    /\ registryFrame

NextRegistry ==
    \/ RegistryRegister
    \/ RegistryClear
    \/ RegistryFilter
    \/ RegistryRestore

SpecRegistry == Init /\ [][NextRegistry]_vars

\* the entries of a registry that hold a plaintext
EntriesOf(reg, plaintext) ==
    { i \in 1..Len(reg.secrets) : decrypt(reg.secrets[i].encryptedValue) = plaintext }

C22_WitnessAfterClear ==
    /\ hist.op = "register"
    /\ Len(registry.secrets) = 2
    /\ registry.secretCounter = 3
    /\ Len(hist.registryBefore.secrets) = 1

\* C40: a placeholder, once issued for a plaintext, is never bound to another
\* plaintext: over every sequence of registerSecret, filterOutput and
\* clearSession, no placeholder was ever bound to two plaintexts, and every
\* registration that mints an entry returns a placeholder no earlier entry had,
\* cleared or not.
C40_PlaceholderNeverRebound ==
    /\ \A a, b \in hist.issued : a.placeholder = b.placeholder => a.plaintext = b.plaintext
    /\ (hist.op = "register"
          /\ Len(registry.secrets) > Len(hist.registryBefore.secrets)) =>
         /\ returned = Placeholder(registry.secretCounter)
         /\ \A a \in hist.issued : a.placeholder = returned => a.plaintext = hist.arg
         /\ Cardinality({ a.placeholder : a \in hist.issued }) = registry.secretCounter

\* a plaintext whose entry was cleared is registered anew and gets a placeholder
\* of its own, so that it has been issued two placeholders
C40_Witness ==
    /\ hist.op = "register"
    /\ Len(registry.secrets) > Len(hist.registryBefore.secrets)
    /\ \E a \in hist.issued :
         /\ a.plaintext = hist.arg
         /\ a.placeholder # returned
         /\ a \notin Bindings(registry)

\* the entries of a registry as a set
EntrySet(reg) == { reg.secrets[i] : i \in 1..Len(reg.secrets) }

\* C23: clearSession(s) removes exactly the entries owned by s and leaves
\* every other entry (id, placeholder, ciphertext, owner) as it was, in the
\* same order; no other operation removes or changes an entry.
C23_ClearRemovesOwnEntriesOnly ==
    [][ /\ hist'.op = "clearSession" =>
               /\ EntrySet(registry') =
                      { e \in EntrySet(registry) : e.sessionId # hist'.sessionId }
               /\ registry'.secrets =
                      SelectSeq(registry.secrets, LAMBDA e : e \in EntrySet(registry'))
               /\ registry'.secretCounter = registry.secretCounter
        /\ hist'.op # "clearSession" =>
               /\ Len(registry'.secrets) >= Len(registry.secrets)
               /\ SubSeq(registry'.secrets, 1, Len(registry.secrets)) = registry.secrets
      ]_vars

\* a clearSession has removed the entries of one session and left an entry
\* of the other
C23_Witness ==
    /\ hist.op = "clearSession"
    /\ Len(hist.registryBefore.secrets) = 2
    /\ Len(registry.secrets) = 1
    /\ registry.secrets[1].sessionId # hist.sessionId

\* C28: an operation of session A on the registry (a secret registered from
\* A's output, A's secrets cleared) changes neither the text a read of session
\* B returns for any output nor what restoreSecrets returns for a placeholder
\* that B's reads have returned.
C28_SessionsDoNotInterfere ==
    [][ (hist'.sessionId = "A" /\ hist'.op \in { "register", "clearSession", "filter" }) =>
            /\ \A text \in RegistryTexts :
                   filterOutput(text, "B", SecretPatterns, registry').text
                     = filterOutput(text, "B", SecretPatterns, registry).text
            /\ \A ph \in hist.seen :
                   restoreSecrets(registry', ph) = restoreSecrets(registry, ph)
      ]_vars

\* the part of it that is about registering alone: a secret registered by A
\* leaves what restoreSecrets returns for B's placeholders
C28_RegisterKeepsRestore ==
    [][ (hist'.sessionId = "A" /\ hist'.op \in { "register", "filter" }) =>
            \A ph \in hist.seen :
                restoreSecrets(registry', ph) = restoreSecrets(registry, ph)
      ]_vars

-----------------------------------------------------------------------------
(* SpecNormalize: TerminalOutputProcessor.processControlSequences on texts *)

\* longest text of the enumerated inputs of SpecNormalize
MaxNormalizeText == 4

\* the pagination banner of the cisco profile, character by character
MoreBanner == << " ", "-", "-", "M", "o", "r", "e", "-", "-", " " >>

NormalizeSamples ==
    { << "a", "b", "c", CR, "X", "Y" >>,
      << "a", "b", BS, BS, "c", "d" >>,
      << "l", "1", NL, "l", "2" >>,
      MoreBanner \o << CR, "R", "1", "#" >>,
      MoreBanner \o << CR >> \o MoreBanner \o << "R", "1", "#" >> }

NormalizeTexts ==
    TextsOver({ "a", "1", CR, BS, DEL, NL, ESC, "[", "]", BEL, "\\" }, 0, MaxNormalizeText)
        \cup NormalizeSamples

\* removePaginationPrompts(output) = processControlSequences(output)
Normalize ==
    /\ hist.op = "new"
    /\ \E output \in NormalizeTexts :
         /\ returned' = processControlSequences(output)
         /\ hist' = [ hist EXCEPT !.op = "normalize", !.arg = output ]
    /\ written' = << >> /\ events' = << >>
    /\ UNCHANGED << toolVars, vendor, bufferVars, process, isConnected, authVars, sessionVars,
                    registry >>

NextNormalize == Normalize

SpecNormalize == Init /\ [][NextNormalize]_vars

\* every character of the text is printable
PrintableOnly(text) == \A i \in 1..Len(text) : isPrintable(text[i])

\* every character of the text is a backspace or a DEL
ErasesOnly(text) == \A i \in 1..Len(text) : text[i] \in { BS, DEL }

\* C24: the normaliser renders a line as a terminal does.  For printable u
\* and w: u CR w is w written over the beginning of u; u followed by k
\* backspaces/DELs and w is u without its last k characters (none left over
\* when k exceeds its length) followed by w; a backspace after u CR w removes
\* the character left of the cursor; u NL w is the two lines u and w.  Hence
\* "abc\rXY" gives "XYc", "ab\b\bcd" gives "cd", "l1\nl2" gives the lines
\* "l1" and "l2".
C24_RendersLikeATerminal ==
    hist.op = "normalize" =>
        LET t == hist.arg
            n == Len(t)
        IN  /\ \A k \in 1..n :
                 LET u == SubSeq(t, 1, k - 1)
                     w == SubSeq(t, k + 1, n)
                 IN  /\ (t[k] = CR /\ PrintableOnly(u) /\ PrintableOnly(w)) =>
                            returned = w \o SubSeq(u, Len(w) + 1, Len(u))
                     /\ (t[k] = NL /\ PrintableOnly(u) /\ PrintableOnly(w)) =>
                            returned = IF w = << >> THEN u ELSE u \o << NL >> \o w
                     /\ (/\ t[k] = CR /\ PrintableOnly(u) /\ n > k + 1
                         /\ PrintableOnly(SubSeq(t, k + 1, n - 1)) /\ t[n] \in { BS, DEL }) =>
                            returned = SubSeq(t, k + 1, n - 2) \o SubSeq(u, n - k, Len(u))
            /\ \A k \in 1..n, m \in 1..n :
                 (/\ k <= m
                  /\ PrintableOnly(SubSeq(t, 1, k - 1))
                  /\ ErasesOnly(SubSeq(t, k, m))
                  /\ PrintableOnly(SubSeq(t, m + 1, n))) =>
                     returned = SubSeq(t, 1, Max(0, k - 1 - (m - k + 1))) \o SubSeq(t, m + 1, n)
            /\ t = << "a", "b", "c", CR, "X", "Y" >> => returned = << "X", "Y", "c" >>
            /\ t = << "a", "b", BS, BS, "c", "d" >> => returned = << "c", "d" >>
            /\ t = << "l", "1", NL, "l", "2" >> => Split(returned, NL) = << << "l", "1" >>, << "l", "2" >> >>

\* "abc\rXY" has been normalised
C24_Witness ==
    /\ hist.op = "normalize"
    /\ hist.arg = << "a", "b", "c", CR, "X", "Y" >>
    /\ returned = << "X", "Y", "c" >>

\* a backspace in the middle of an overwritten line has been rendered
C24_WitnessErase ==
    /\ hist.op = "normalize"
    /\ hist.arg = << "a", "1", BS, "1" >>
    /\ returned = << "a", "1" >>

\* C25: for the pagination banner B and a first line L of printable
\* characters, B CR L normalises to L: nothing of the banner is left.
C25_BannerLeavesNoResidue ==
    hist.op = "normalize" =>
        \A k \in 1..Len(hist.arg) :
            (/\ SubSeq(hist.arg, 1, k - 1) = MoreBanner
             /\ hist.arg[k] = CR
             /\ k < Len(hist.arg)
             /\ PrintableOnly(SubSeq(hist.arg, k + 1, Len(hist.arg)))) =>
                returned = SubSeq(hist.arg, k + 1, Len(hist.arg))

\* the same for a first line that is at least as long as the banner
C25_LongLineCoversBanner ==
    hist.op = "normalize" =>
        \A k \in 1..Len(hist.arg) :
            (/\ SubSeq(hist.arg, 1, k - 1) = MoreBanner
             /\ hist.arg[k] = CR
             /\ Len(hist.arg) - k >= Len(MoreBanner)
             /\ PrintableOnly(SubSeq(hist.arg, k + 1, Len(hist.arg)))) =>
                returned = SubSeq(hist.arg, k + 1, Len(hist.arg))

\* the escape sequence that begins at position k of the text is never
\* terminated: a lone ESC at the end, a CSI without a final byte, or an OSC
\* without BEL and without ST
RunsOffTheEnd(t, k) ==
    /\ t[k] = ESC
    /\ \/ k = Len(t)
       \/ /\ t[k + 1] = "["
          /\ \A i \in (k + 2)..Len(t) : ~isAnsiTerminator(t[i])
       \/ /\ t[k + 1] = "]"
          /\ \A i \in (k + 2)..Len(t) :
                 /\ t[i] # BEL
                 /\ ~(t[i] = ESC /\ i < Len(t) /\ t[i + 1] = "\\")

\* C26: on every text the scan never moves backwards at an ESC (the index
\* skipAnsiEscape returns is at least the position of the ESC, so the loop's
\* increment takes it past it) and the normaliser returns a value; where the
\* escape sequence beginning at an ESC runs off the end of the text, the result
\* is the normalisation of the text before that ESC.
C26_UnterminatedEscapeConsumed ==
    hist.op = "normalize" =>
        /\ returned # NoValue
        /\ \A k \in 1..Len(hist.arg) :
             hist.arg[k] = ESC =>
                 /\ skipAnsiEscape(hist.arg, k) >= k
                 /\ skipAnsiEscape(hist.arg, k) <= Len(hist.arg) + 1
        /\ \A k \in 1..Len(hist.arg) :
             (/\ RunsOffTheEnd(hist.arg, k)
              /\ \A j \in 1..(k - 1) : hist.arg[j] # ESC) =>
                 returned = processControlSequences(SubSeq(hist.arg, 1, k - 1))

\* a CSI sequence without a final byte after printable text has been consumed
C26_Witness ==
    /\ hist.op = "normalize"
    /\ hist.arg = << "a", ESC, "[", "1" >>
    /\ returned = << "a" >>

\* an OSC sequence without terminator has been consumed
C26_WitnessOsc ==
    /\ hist.op = "normalize"
    /\ hist.arg = << "a", ESC, "]", "1" >>
    /\ returned = << "a" >>

-----------------------------------------------------------------------------
(* SpecRate: the request lines of one connection against the clock *)

\* RATE_LIMIT_WINDOW (1000 ms in the source), in ticks of the model's clock
RATE_LIMIT_WINDOW == 2

\* the last tick of the clock and the lines of a run of SpecRate
MaxTime == 4
MaxRateLines == 5

\* handleConnection of a local client: windowStart is Date.now()
RateConnection ==
    /\ ~clients["c1"].open
    /\ clients' = [ clients EXCEPT !["c1"] =
                      [ open |-> TRUE, requestCount |-> 0, authenticated |-> FALSE,
                        windowStart |-> hist.now ] ]
    /\ hist' = [ Before EXCEPT !.op = "connection", !.arg = << >>, !.conn = "c1",
                               !.request = NoRequest, !.authBefore = FALSE,
                               !.processed = << >> ]
    /\ events' = << >>
    /\ ipcFrame

\* time passes
Tick ==
    /\ hist.now < MaxTime
    /\ hist' = [ Before EXCEPT !.op = "tick", !.arg = << >>, !.now = @ + 1 ]
    /\ events' = << >>
    /\ UNCHANGED clients
    /\ ipcFrame

\* the 'data' handler for one line: checkRateLimit with the clock, then
\* handleRequest for a line that is let through
RateLine ==
    /\ clients["c1"].open
    /\ hist.nCommands < MaxRateLines
    /\ \E request \in { r \in ToolRequests : r._signature = << >> /\ r.params = "p1" } :
         LET clientState == clients["c1"]
             windowExpired == hist.now - clientState.windowStart >= RATE_LIMIT_WINDOW
             limited == checkRateLimit(clientState, windowExpired)
             counted == [ limited.state EXCEPT !.windowStart =
                            IF windowExpired THEN hist.now ELSE @ ]
             handled == handleRequest(counted, request)
         IN  /\ clients' = [ clients EXCEPT !["c1"] =
                               IF limited.allowed THEN handled.state ELSE counted ]
             /\ events' = IF limited.allowed THEN << handled.response >>
                          ELSE << ipcEvent("error", -32000) >>
             /\ hist' = [ Before EXCEPT !.op = "request", !.arg = << >>, !.conn = "c1",
                                        !.request = request,
                                        !.authBefore = clientState.authenticated,
                                        !.processed = IF limited.allowed
                                                      THEN Append(@, hist.now) ELSE @,
                                        !.nCommands = @ + 1 ]
    /\ ipcFrame

NextRate ==
    \/ RateConnection
    \/ Tick
    \/ RateLine
    \/ SocketClose

SpecRate == Init /\ [][NextRate]_vars

\* the lines of the connection handed to handleRequest at the times from..to
ProcessedIn(from, to) ==
    Cardinality({ i \in 1..Len(hist.processed) :
                    hist.processed[i] >= from /\ hist.processed[i] <= to })

\* C27: in any period of the length of the rate-limit window the server
\* processes at most RATE_LIMIT_MAX_REQUESTS lines of a connection, and a line
\* over the limit is answered with the rate-limit error and not processed.
C27_AtMostMaxPerPeriod ==
    /\ \A t \in 0..MaxTime :
         ProcessedIn(t, t + RATE_LIMIT_WINDOW - 1) <= RATE_LIMIT_MAX_REQUESTS
    /\ (hist.op = "request" /\ events = << ipcEvent("error", -32000) >>) =>
           ~ReachedMcp

\* what the counter does bound: the lines processed since the window the
\* connection is in began
C27_AtMostMaxPerCountedWindow ==
    clients["c1"].open =>
        /\ ProcessedIn(clients["c1"].windowStart, MaxTime) <= RATE_LIMIT_MAX_REQUESTS
        /\ (hist.op = "request" /\ clients["c1"].requestCount > RATE_LIMIT_MAX_REQUESTS) =>
               events = << ipcEvent("error", -32000) >>

-----------------------------------------------------------------------------
(* SpecInput: keystrokes and pasted text in the terminal *)

InputChunks ==
    { << "ssh", " ", "h1" >>, << "ssh", " ", "h2" >>, << CR >>, << NL >>, << "x" >>,
      << "ssh", " ", "h1", CR >>, << "x", NL >> }

InputKeys ==
    /\ process # "none"
    /\ \E data \in InputChunks : HandleInput(data)

NextInput ==
    \/ Open
    \/ InputKeys
    \/ SubSessionTimeout

SpecInput == Init /\ [][NextInput]_vars

\* the position of the first Enter of a chunk, 0 for a chunk without
FirstEnter(data) ==
    IF \E i \in 1..Len(data) : data[i] \in { CR, NL }
    THEN CHOOSE i \in 1..Len(data) :
             /\ data[i] \in { CR, NL }
             /\ \A j \in 1..(i - 1) : data[j] \notin { CR, NL }
    ELSE 0

\* the line as it stands when the first Enter of the chunk is typed
LineAtEnter ==
    Trim(updateVisibleCommandLine(SubSeq(hist.arg, 1, FirstEnter(hist.arg) - 1),
                                  hist.lineBefore))

\* C29: after handleInput of a chunk that contains Enter, the line typed up to
\* that Enter has been inspected for a sub-session command (the pending host
\* and the timer are what detectSubsession makes of that line) and
\* visibleCommandLine is empty, for a chunk that is the Enter alone and for a
\* longer chunk alike.
C29_EnterFreezesAndResets ==
    (hist.op = "input" /\ FirstEnter(hist.arg) > 0) =>
        LET d == detectSubsession(vendor, LineAtEnter, hist.hostBefore, hist.subTimerBefore)
        IN  /\ visibleCommandLine = << >>
            /\ pendingSubSessionHost = d.pendingSubSessionHost
            /\ subSessionDetectionTimer = d.subSessionDetectionTimer

\* the same for a chunk that is the Enter alone
C29_LoneEnterFreezesAndResets ==
    (hist.op = "input" /\ IsEnter(hist.arg)) =>
        LET d == detectSubsession(vendor, LineAtEnter, hist.hostBefore, hist.subTimerBefore)
        IN  /\ visibleCommandLine = << >>
            /\ pendingSubSessionHost = d.pendingSubSessionHost
            /\ subSessionDetectionTimer = d.subSessionDetectionTimer

-----------------------------------------------------------------------------
(* SpecDebounce: a prompt that arrives one piece per chunk, the clock and the
   debounce timer *)

\* output pieces a run of SpecDebounce delivers
MaxDebounceOutput == 4

DebounceChunks == { << "Enter" >>, << " " >>, << "Password:" >>, << NL >>, << CR >> }

DebounceData ==
    /\ hist.total < MaxDebounceOutput
    /\ \E data \in DebounceChunks : OnData(data, FALSE)

\* the timer callback runs once the delay has passed
DebounceTimerFire ==
    /\ hist.now >= hist.due
    /\ AuthTimerFire

NextDebounce ==
    \/ Open
    \/ DebounceData
    \/ Tick
    \/ DebounceTimerFire
    \/ AuthPromptAnswered

SpecDebounce == Init /\ [][NextDebounce]_vars

\* C32: there is one debounce timer; every chunk cancels it and arms a fresh
\* one exactly if the accumulated pending line matches a tier and has no
\* newline, so an armed timer is always due 300 ms after the latest chunk; a
\* confirmed auth-prompt event is raised only by the timer callback, never
\* earlier than 300 ms after the latest chunk, and the callback of a prompt
\* raises exactly one event and leaves no timer armed.
C32_DebounceAfterLastChunk ==
    /\ hist.op = "data" =>
           promptDetectionTimer.armed =
               (pendingLine # << >> /\ promptTypeOf(pendingLine) # "none")
    /\ promptDetectionTimer.armed => hist.due = hist.chunkAt + AUTH_DEBOUNCE
    /\ AuthEvents # {} => hist.op = "authTimer"
    /\ hist.op = "authTimer" =>
           /\ hist.now >= hist.chunkAt + AUTH_DEBOUNCE
           /\ ~promptDetectionTimer.armed
           /\ Trim(Last(Split(hist.arg, CR))) # << >> => Len(events) = 1
           /\ Len(events) <= 1

\* the prompt "Enter Password: " has arrived in four chunks at three different
\* times, and its one event is raised when the delay after the last has passed
C32_Witness ==
    /\ hist.op = "authTimer"
    /\ hist.arg = << "Enter", " ", "Password:", " " >>
    /\ hist.chunkAt >= 2
    /\ hist.now = hist.chunkAt + AUTH_DEBOUNCE
    /\ events = << [ kind |-> "auth", text |-> << "Enter", " ", "Password:" >>,
                     type |-> "password" ] >>

-----------------------------------------------------------------------------
(* SpecExpiry: sub-session attempts, the device's answers, the clock and the
   expiry timer *)

MaxExpiryOutput == 3
MaxExpiryCommands == 2

ExpiryData ==
    /\ hist.total + 1 < MaxExpiryOutput
    /\ \E data \in SubChunks : OnData(data, FALSE)

ExpirySend ==
    /\ process # "none"
    /\ hist.nCommands < MaxExpiryCommands
    /\ \E text \in SubCommands : SendText(text, TRUE, FALSE)

\* time passes; a timer that is due runs before the clock moves on
ExpiryTick ==
    /\ subSessionDetectionTimer => hist.now < hist.subDue
    /\ Tick

\* the callback of the expiry timer runs when the delay has passed
ExpiryTimeout ==
    /\ hist.now >= hist.subDue
    /\ SubSessionTimeout

NextExpiry ==
    \/ Open
    \/ ExpirySend
    \/ ExpiryData
    \/ ExpiryTick
    \/ ExpiryTimeout
    \/ Close

SpecExpiry == Init /\ [][NextExpiry]_vars

SessionOpen == process = "running" /\ ~hist.closed

\* C33: while the session is open a sub-session is pending exactly when its
\* expiry timer is armed, and no sub-session is pending for more than 5 s; the
\* timeout and a failure match clear the pending state without an event, and a
\* success match clears it with exactly one sub-session-entered event that
\* carries the host recorded when the command was entered.
C33_PendingExpiresSilently ==
    /\ SessionOpen =>
           /\ (pendingSubSessionHost # << >>) = subSessionDetectionTimer
           /\ pendingSubSessionHost # << >> =>
                  hist.now <= hist.pendingSince + SUBSESSION_TIMEOUT
    /\ hist.op = "subSessionTimeout" =>
           /\ events = << >>
           /\ pendingSubSessionHost = << >>
    /\ (hist.op = "data" /\ hist.hostBefore # << >>
          /\ subSessionFailureTest(vendor, hist.arg)) =>
           /\ events = << >>
           /\ hist.attempt = "failed"
    /\ (hist.op = "data" /\ hist.hostBefore # << >>
          /\ ~subSessionFailureTest(vendor, hist.arg)
          /\ subSessionSuccessTest(vendor, hist.arg)) =>
           /\ events = << [ kind |-> "subsession", host |-> hist.hostBefore ] >>
           /\ hist.attempt = "entered"
    /\ SubSessionEvents # {} =>
           /\ hist.op = "data"
           /\ events = << [ kind |-> "subsession", host |-> hist.hostBefore ] >>

\* the attempt for h1 has run out at the time its timer was due
C33_Witness ==
    /\ SessionOpen
    /\ hist.op = "subSessionTimeout"
    /\ hist.hostBefore = << "h1" >>
    /\ hist.now = hist.pendingSince + SUBSESSION_TIMEOUT
    /\ hist.pendingSince > 0
    /\ pendingSubSessionHost = << >>
    /\ events = << >>

\* the prompt has returned one tick after "ssh h1": one event for h1
C33_WitnessEntered ==
    /\ SessionOpen
    /\ hist.op = "data"
    /\ hist.hostBefore = << "h1" >>
    /\ hist.now = hist.pendingSince + 1
    /\ events = << [ kind |-> "subsession", host |-> << "h1" >> ] >>
    /\ pendingSubSessionHost = << >>

-----------------------------------------------------------------------------
(* SpecForms: the documented forms of ssh and telnet commands, typed and
   entered, and the device's answer *)

FormHosts == { << "h1" >>, << "10.0.0.1" >> }

\* ssh HOST, ssh USER@HOST, ssh -l USER HOST, telnet HOST, telnet HOST PORT
FormsOf(host) ==
    { << "ssh", " " >> \o host,
      << "ssh", " ", "admin", "@" >> \o host,
      << "ssh", " ", "-l", " ", "admin", " " >> \o host,
      << "telnet", " " >> \o host,
      << "telnet", " " >> \o host \o << " ", "23" >> }

FormsKeys == UNION { FormsOf(host) : host \in FormHosts } \cup { << CR >> }

\* output characters a run of SpecForms delivers
MaxFormsOutput == 2

FormsInput ==
    /\ process # "none"
    /\ \E data \in FormsKeys : HandleInput(data)

FormsData ==
    /\ hist.total < MaxFormsOutput
    /\ \E data \in { << "R1#" >>, << "Connection refused" >> } : OnData(data, FALSE)

NextForms ==
    \/ Open
    \/ FormsInput
    \/ FormsData
    \/ SubDevice
    \/ SubSessionTimeout

SpecForms == Init /\ [][NextForms]_vars

\* C35: when Enter freezes a command line of the form ssh HOST, ssh USER@HOST,
\* ssh -l USER HOST or telnet HOST [PORT] while no sub-session is pending, the
\* host recorded for the pending sub-session is HOST, and a sub-session-entered
\* event carries the host that was recorded.
C35_RecordedHostIsTarget ==
    /\ \A host \in FormHosts :
           (hist.op = "input" /\ hist.hostBefore = << >> /\ hist.frozenLine \in FormsOf(host)) =>
               pendingSubSessionHost = host
    /\ SubSessionEvents # {} =>
           events = << [ kind |-> "subsession", host |-> hist.hostBefore ] >>

\* the forms without an option before the host do record HOST
C35_HostOfFormsWithoutOption ==
    \A host \in FormHosts :
        (hist.op = "input" /\ hist.hostBefore = << >> /\ hist.frozenLine \in FormsOf(host)
           /\ ~HasToken(hist.frozenLine, "-l")) =>
            pendingSubSessionHost = host

\* ssh -l USER HOST records the option as the host
C35_OptionRecordedAsHost ==
    (hist.op = "input" /\ hist.hostBefore = << >> /\ HasToken(hist.frozenLine, "-l")
       /\ \E host \in FormHosts : hist.frozenLine \in FormsOf(host)) =>
        pendingSubSessionHost = << "-l" >>

-----------------------------------------------------------------------------
(* SpecStack: SessionManager's context stacks of one session, and the
   set_device_type tool *)

\* deepest stack of a run of SpecStack
MaxDepth == 3

SubSessionNames == { "h1", "h2" }

\* SSHPseudoterminal.setDeviceType(deviceType) as a step of the caller
setDeviceType(deviceType) ==
    /\ vendor' = getVendor(deviceType)
    /\ LET S0 == [ Session EXCEPT !.vendor = getVendor(deviceType) ]
       IN  Install(IF paginationBuffer # << >>
                   THEN detectPaginationPrompt(S0, << >>, process, registry)
                   ELSE S0)

stackFrame ==
    /\ events' = << >> /\ returned' = NoValue
    /\ UNCHANGED << strictModeEnabled, dialogs, clients, bufferVars, process, isConnected,
                    authVars, registry >>

\* SessionManager.connect up to activeSessions.set
Connect ==
    /\ activeSession = NoSession
    /\ \E initialDeviceType \in DeviceTypes :
         /\ setDeviceType(initialDeviceType)
         /\ activeSession' = [ contextStack |-> << initialDeviceType >>,
                               subSessionStack |-> << SessionId >> ]
         /\ hist' = [ Before EXCEPT !.op = "connect", !.arg = << initialDeviceType >> ]
    /\ stackFrame

\* SessionManager.startSubSession(terminal, newDeviceType, subSessionName)
StartSubSession ==
    /\ activeSession # NoSession
    /\ Len(activeSession.contextStack) < MaxDepth
    /\ \E newDeviceType \in DeviceTypes, subSessionName \in SubSessionNames :
         /\ activeSession' = [ contextStack |-> Append(activeSession.contextStack, newDeviceType),
                               subSessionStack |-> Append(activeSession.subSessionStack,
                                                          subSessionName) ]
         /\ setDeviceType(newDeviceType)
         /\ hist' = [ Before EXCEPT !.op = "startSubSession", !.arg = << newDeviceType >> ]
    /\ stackFrame

\* SessionManager.endSubSession(terminal)
EndSubSession ==
    /\ activeSession # NoSession
    /\ IF Len(activeSession.contextStack) > 1
       THEN LET contextStack == SubSeq(activeSession.contextStack, 1,
                                       Len(activeSession.contextStack) - 1)
                subSessionStack == SubSeq(activeSession.subSessionStack, 1,
                                          Len(activeSession.subSessionStack) - 1)
            IN  /\ activeSession' = [ contextStack |-> contextStack,
                                      subSessionStack |-> subSessionStack ]
                /\ setDeviceType(contextStack[Len(contextStack)])
                /\ hist' = [ Before EXCEPT !.op = "endSubSession",
                                           !.arg = << contextStack[Len(contextStack)] >> ]
       ELSE /\ hist' = [ Before EXCEPT !.op = "endSubSession", !.arg = << >> ]
            /\ written' = << >>
            /\ UNCHANGED << activeSession, vendor, sessionVars >>
    /\ stackFrame

\* MCPServer.toolSetDeviceType for a supported device type
ToolSetDeviceType ==
    /\ activeSession # NoSession
    /\ \E deviceType \in DeviceTypes :
         /\ setDeviceType(deviceType)
         /\ hist' = [ Before EXCEPT !.op = "toolSetDeviceType", !.arg = << deviceType >> ]
    /\ UNCHANGED activeSession
    /\ stackFrame

NextStack ==
    \/ Connect
    \/ Open
    \/ StartSubSession
    \/ EndSubSession
    \/ ToolSetDeviceType

SpecStack == Init /\ [][NextStack]_vars

Top(stack) == stack[Len(stack)]

\* C39: for an active session, after any sequence of connect, startSubSession,
\* endSubSession and set_device_type, contextStack and subSessionStack have the
\* same length of at least 1, and the pseudoterminal's vendor profile is the
\* profile of the device type on top of contextStack.
C39_VendorIsTopOfStack ==
    activeSession # NoSession =>
        /\ Len(activeSession.contextStack) = Len(activeSession.subSessionStack)
        /\ Len(activeSession.contextStack) >= 1
        /\ vendor = getVendor(Top(activeSession.contextStack))

\* the two stacks do move together and the root is never popped
C39_StacksInStep ==
    activeSession # NoSession =>
        /\ Len(activeSession.contextStack) = Len(activeSession.subSessionStack)
        /\ Len(activeSession.contextStack) >= 1
        /\ activeSession.subSessionStack[1] = SessionId

\* connect, startSubSession and an endSubSession that pops leave the profile of
\* the top of the stack in use
C39_StackOperationsSetVendor ==
    (hist.op \in { "connect", "startSubSession" }
       \/ (hist.op = "endSubSession" /\ hist.arg # << >>)) =>
        vendor = getVendor(Top(activeSession.contextStack))

====
